---- MODULE Spec2Model ----
(***************************************************************************)
(* Capability-filtering layer between a guest and a filesystem provider.   *)
(* Three components re-export the provider's descriptor interface:         *)
(*   chroot   (src/components/chroot/src/lib.rs)                           *)
(*   readonly (src/components/readonly/src/lib.rs)                         *)
(*   tracing  (src/components/tracing/src/lib.rs)                          *)
(* Every exported function is one action.  The provider, the configuration *)
(* store and the logging sink are external: every interaction with them is *)
(* recorded, in program order, in `events`; the provider's answers are     *)
(* chosen nondeterministically.                                            *)
(***************************************************************************)
EXTENDS Integers, Sequences, FiniteSets, TLC

\* Number of guest calls explored in one behaviour.
MaxCalls == 3

\* Bound on the length of the paths given to prefix_path on its own.
MaxPathLen == 3

\* Bound on the guest calls of a session of directory streams.
MaxStreamCalls == 5

(***************************************************************************)
(* Vocabulary.  A provider value is <<"types::T", case>>, an exported      *)
(* value is <<"T", case>>: two distinct nominal types per enumeration.     *)
(***************************************************************************)
ErrorCodeCases ==
    { "Access", "WouldBlock", "Already", "BadDescriptor", "Busy", "Deadlock",
      "Quota", "Exist", "FileTooLarge", "IllegalByteSequence", "InProgress",
      "Interrupted", "Invalid", "Io", "IsDirectory", "Loop", "TooManyLinks",
      "MessageSize", "NameTooLong", "NoDevice", "NoEntry", "NoLock",
      "InsufficientMemory", "InsufficientSpace", "NotDirectory", "NotEmpty",
      "NotRecoverable", "Unsupported", "NoTty", "NoSuchDevice", "Overflow",
      "NotPermitted", "Pipe", "ReadOnly", "InvalidSeek", "TextFileBusy",
      "CrossDevice" }

DescriptorTypeCases ==
    { "Unknown", "BlockDevice", "CharacterDevice", "Directory", "Fifo",
      "SymbolicLink", "RegularFile", "Socket" }

AdviceCases == { "Normal", "Sequential", "Random", "WillNeed", "DontNeed", "NoReuse" }

\* Flag bitsets: a value is the set of the bits that are set.
DescriptorFlagBits ==
    { "READ", "WRITE", "FILE_INTEGRITY_SYNC", "DATA_INTEGRITY_SYNC",
      "REQUESTED_WRITE_SYNC", "MUTATE_DIRECTORY" }

OpenFlagBits == { "CREATE", "DIRECTORY", "EXCLUSIVE", "TRUNCATE" }

PathFlagBits == { "SYMLINK_FOLLOW" }

ProviderErrorCodes == { <<"types::ErrorCode", c>> : c \in ErrorCodeCases }

ProviderDescriptorTypes == { <<"types::DescriptorType", c>> : c \in DescriptorTypeCases }

Advices == { <<"Advice", c>> : c \in AdviceCases }

\* NewTimestamp::Timestamp carries a datetime.
NewTimestamps ==
    { <<"NewTimestamp", "NoChange">>, <<"NewTimestamp", "Now">>,
      <<"NewTimestamp", "Timestamp", 1>> }

(***************************************************************************)
(* Type/Error mapper.                                                      *)
(***************************************************************************)
\* error_code_map whose NoTty arm answers NoSuchDevice.
Mut_error_code_map(error_code) ==
    IF error_code[2] = "NoTty" THEN <<"ErrorCode", "NoSuchDevice">>
    ELSE <<"ErrorCode", error_code[2]>>

error_code_map(error_code) ==
    CASE error_code = <<"types::ErrorCode", "Access">> -> <<"ErrorCode", "Access">>
      [] error_code = <<"types::ErrorCode", "WouldBlock">> -> <<"ErrorCode", "WouldBlock">>
      [] error_code = <<"types::ErrorCode", "Already">> -> <<"ErrorCode", "Already">>
      [] error_code = <<"types::ErrorCode", "BadDescriptor">> -> <<"ErrorCode", "BadDescriptor">>
      [] error_code = <<"types::ErrorCode", "Busy">> -> <<"ErrorCode", "Busy">>
      [] error_code = <<"types::ErrorCode", "Deadlock">> -> <<"ErrorCode", "Deadlock">>
      [] error_code = <<"types::ErrorCode", "Quota">> -> <<"ErrorCode", "Quota">>
      [] error_code = <<"types::ErrorCode", "Exist">> -> <<"ErrorCode", "Exist">>
      [] error_code = <<"types::ErrorCode", "FileTooLarge">> -> <<"ErrorCode", "FileTooLarge">>
      [] error_code = <<"types::ErrorCode", "IllegalByteSequence">> -> <<"ErrorCode", "IllegalByteSequence">>
      [] error_code = <<"types::ErrorCode", "InProgress">> -> <<"ErrorCode", "InProgress">>
      [] error_code = <<"types::ErrorCode", "Interrupted">> -> <<"ErrorCode", "Interrupted">>
      [] error_code = <<"types::ErrorCode", "Invalid">> -> <<"ErrorCode", "Invalid">>
      [] error_code = <<"types::ErrorCode", "Io">> -> <<"ErrorCode", "Io">>
      [] error_code = <<"types::ErrorCode", "IsDirectory">> -> <<"ErrorCode", "IsDirectory">>
      [] error_code = <<"types::ErrorCode", "Loop">> -> <<"ErrorCode", "Loop">>
      [] error_code = <<"types::ErrorCode", "TooManyLinks">> -> <<"ErrorCode", "TooManyLinks">>
      [] error_code = <<"types::ErrorCode", "MessageSize">> -> <<"ErrorCode", "MessageSize">>
      [] error_code = <<"types::ErrorCode", "NameTooLong">> -> <<"ErrorCode", "NameTooLong">>
      [] error_code = <<"types::ErrorCode", "NoDevice">> -> <<"ErrorCode", "NoDevice">>
      [] error_code = <<"types::ErrorCode", "NoEntry">> -> <<"ErrorCode", "NoEntry">>
      [] error_code = <<"types::ErrorCode", "NoLock">> -> <<"ErrorCode", "NoLock">>
      [] error_code = <<"types::ErrorCode", "InsufficientMemory">> -> <<"ErrorCode", "InsufficientMemory">>
      [] error_code = <<"types::ErrorCode", "InsufficientSpace">> -> <<"ErrorCode", "InsufficientSpace">>
      [] error_code = <<"types::ErrorCode", "NotDirectory">> -> <<"ErrorCode", "NotDirectory">>
      [] error_code = <<"types::ErrorCode", "NotEmpty">> -> <<"ErrorCode", "NotEmpty">>
      [] error_code = <<"types::ErrorCode", "NotRecoverable">> -> <<"ErrorCode", "NotRecoverable">>
      [] error_code = <<"types::ErrorCode", "Unsupported">> -> <<"ErrorCode", "Unsupported">>
      [] error_code = <<"types::ErrorCode", "NoTty">> -> <<"ErrorCode", "NoTty">>
      [] error_code = <<"types::ErrorCode", "NoSuchDevice">> -> <<"ErrorCode", "NoSuchDevice">>
      [] error_code = <<"types::ErrorCode", "Overflow">> -> <<"ErrorCode", "Overflow">>
      [] error_code = <<"types::ErrorCode", "NotPermitted">> -> <<"ErrorCode", "NotPermitted">>
      [] error_code = <<"types::ErrorCode", "Pipe">> -> <<"ErrorCode", "Pipe">>
      [] error_code = <<"types::ErrorCode", "ReadOnly">> -> <<"ErrorCode", "ReadOnly">>
      [] error_code = <<"types::ErrorCode", "InvalidSeek">> -> <<"ErrorCode", "InvalidSeek">>
      [] error_code = <<"types::ErrorCode", "TextFileBusy">> -> <<"ErrorCode", "TextFileBusy">>
      [] error_code = <<"types::ErrorCode", "CrossDevice">> -> <<"ErrorCode", "CrossDevice">>

descriptor_type_map(descriptor_type) ==
    CASE descriptor_type = <<"types::DescriptorType", "Unknown">> -> <<"DescriptorType", "Unknown">>
      [] descriptor_type = <<"types::DescriptorType", "BlockDevice">> -> <<"DescriptorType", "BlockDevice">>
      [] descriptor_type = <<"types::DescriptorType", "CharacterDevice">> -> <<"DescriptorType", "CharacterDevice">>
      [] descriptor_type = <<"types::DescriptorType", "Directory">> -> <<"DescriptorType", "Directory">>
      [] descriptor_type = <<"types::DescriptorType", "Fifo">> -> <<"DescriptorType", "Fifo">>
      [] descriptor_type = <<"types::DescriptorType", "SymbolicLink">> -> <<"DescriptorType", "SymbolicLink">>
      [] descriptor_type = <<"types::DescriptorType", "RegularFile">> -> <<"DescriptorType", "RegularFile">>
      [] descriptor_type = <<"types::DescriptorType", "Socket">> -> <<"DescriptorType", "Socket">>

advice_map_in(advice) ==
    CASE advice = <<"Advice", "Normal">> -> <<"types::Advice", "Normal">>
      [] advice = <<"Advice", "Sequential">> -> <<"types::Advice", "Sequential">>
      [] advice = <<"Advice", "Random">> -> <<"types::Advice", "Random">>
      [] advice = <<"Advice", "WillNeed">> -> <<"types::Advice", "WillNeed">>
      [] advice = <<"Advice", "DontNeed">> -> <<"types::Advice", "DontNeed">>
      [] advice = <<"Advice", "NoReuse">> -> <<"types::Advice", "NoReuse">>

new_timestamp_map_in(new_timestamp) ==
    CASE new_timestamp[2] = "NoChange" -> <<"types::NewTimestamp", "NoChange">>
      [] new_timestamp[2] = "Now" -> <<"types::NewTimestamp", "Now">>
      [] new_timestamp[2] = "Timestamp" -> <<"types::NewTimestamp", "Timestamp", new_timestamp[3]>>

\* The bit of every flag of flags type T, as the bindings generated for the
\* imported (types::T) and for the exported (T) interface define them: both
\* come from the same interface definition.
bitflags(T) ==
    CASE T \in {"types::DescriptorFlags", "DescriptorFlags"} ->
            [ READ |-> 1, WRITE |-> 2, FILE_INTEGRITY_SYNC |-> 4, DATA_INTEGRITY_SYNC |-> 8,
              REQUESTED_WRITE_SYNC |-> 16, MUTATE_DIRECTORY |-> 32 ]
      [] T \in {"types::OpenFlags", "OpenFlags"} ->
            [ CREATE |-> 1, DIRECTORY |-> 2, EXCLUSIVE |-> 4, TRUNCATE |-> 8 ]
      [] T \in {"types::PathFlags", "PathFlags"} ->
            [ SYMLINK_FOLLOW |-> 1 ]

RECURSIVE SumBits(_, _)
SumBits(w, flags) ==
    IF flags = {} THEN 0
    ELSE LET b == CHOOSE x \in flags : TRUE
         IN  w[b] + SumBits(w, flags \ {b})

\* T::bits(flags): the integer that carries the flags.
bits(T, flags) == SumBits(bitflags(T), flags)

\* T::from_bits(n): the flags of T that n carries, None if n has a bit that
\* is no flag of T.
from_bits(T, n) ==
    LET w == bitflags(T)
        flags == { b \in DOMAIN w : (n \div w[b]) % 2 = 1 }
    IN  IF SumBits(w, flags) = n THEN [some |-> TRUE, v |-> flags] ELSE [some |-> FALSE]

\* What stands for a flags value after unwrap() has panicked on None.
Panicked == { "called Option::unwrap() on a None value" }

\* Option::unwrap()
unwrap(o) == IF o.some THEN o.v ELSE Panicked

\* DescriptorFlags::from_bits(descriptor_flags.bits()).unwrap()
descriptor_flags_map(descriptor_flags) ==
    unwrap(from_bits("DescriptorFlags", bits("types::DescriptorFlags", descriptor_flags)))

\* types::PathFlags::from_bits(path_flags.bits()).unwrap()
path_flags_in(path_flags) ==
    unwrap(from_bits("types::PathFlags", bits("PathFlags", path_flags)))

\* The conversion of open flags written with the path flags type.
Mut_open_flags_in(open_flags) ==
    unwrap(from_bits("types::PathFlags", bits("OpenFlags", open_flags)))

\* types::OpenFlags::from_bits(open_flags.bits()).unwrap()
open_flags_in(open_flags) ==
    unwrap(from_bits("types::OpenFlags", bits("OpenFlags", open_flags)))

\* types::DescriptorFlags::from_bits(flags.bits()).unwrap()
descriptor_flags_in(flags) ==
    unwrap(from_bits("types::DescriptorFlags", bits("DescriptorFlags", flags)))

descriptor_stat_map(descriptor_stat) ==
    [ type_ |-> descriptor_type_map(descriptor_stat.type_),
      link_count |-> descriptor_stat.link_count,
      size |-> descriptor_stat.size,
      data_access_timestamp |-> descriptor_stat.data_access_timestamp,
      data_modification_timestamp |-> descriptor_stat.data_modification_timestamp,
      status_change_timestamp |-> descriptor_stat.status_change_timestamp ]

directory_entry_map(directory_entry) ==
    [ name |-> directory_entry.name,
      type_ |-> descriptor_type_map(directory_entry.type_) ]

metadata_hash_value_map(metadata_hash_value) ==
    [ lower |-> metadata_hash_value.lower, upper |-> metadata_hash_value.upper ]

(***************************************************************************)
(* Results.  Result<T, E> is [ok, v]; v is a one-field record naming the   *)
(* kind of value, an error is [code |-> error code].                       *)
(***************************************************************************)
Ok(v) == [ok |-> TRUE, v |-> v]

Err(code) == [ok |-> FALSE, v |-> [code |-> code]]

Unit == [unit |-> TRUE]

\* Result::map_err(error_code_map)
map_err(r) == IF r.ok THEN r ELSE Err(error_code_map(r.v.code))

IsResult(r) == DOMAIN r = {"ok", "v"}

IsErr(r, case) == IsResult(r) /\ ~r.ok /\ r.v.code = <<"ErrorCode", case>>

(***************************************************************************)
(* Paths are sequences of characters.                                      *)
(***************************************************************************)
SEP == "/"

P_a_b == <<"a", "/", "b">>

P_abs_a_b == <<"/", "a", "/", "b">>

P_up == <<".", ".", "/", "a">>

P_etc_passwd == <<"e", "t", "c", "/", "p", "a", "s", "s", "w", "d">>

\* Path arguments a guest presents.
GuestPaths == { P_etc_passwd, P_abs_a_b, P_up }

\* Second path argument of link_at, rename_at and symlink_at.
GuestNewPaths == { P_a_b, P_abs_a_b }

Filesizes == { 0, 1 }

Lengths == { 1 }

Buffers == { <<>>, <<7>> }

StartsWith(s, prefix) ==
    /\ Len(s) >= Len(prefix)
    /\ SubSeq(s, 1, Len(prefix)) = prefix

\* str::strip_prefix("/")
strip_prefix(path) ==
    IF StartsWith(path, <<SEP>>) THEN [some |-> TRUE, p |-> Tail(path)]
    ELSE [some |-> FALSE, p |-> path]

\* std::path::Path::join on the wasm (unix-like) target: an absolute argument
\* replaces the base; otherwise a separator is added unless the base is empty
\* or already ends with one.
PathJoin(base, p) ==
    IF StartsWith(p, <<SEP>>) THEN p
    ELSE IF base = <<>> THEN p
    ELSE IF base[Len(base)] = SEP THEN base \o p
    ELSE base \o <<SEP>> \o p

\* prefix_path that forgets the configured prefix.
Mut_prefix_path(path_prefix, path) ==
    PathJoin(<<>>, strip_prefix(path).p)

\* prefix_path once the configuration lookup has returned path_prefix.
prefix_path(path_prefix, path) ==
    LET stripped == strip_prefix(path).p
    IN  PathJoin(PathJoin(<<>>, path_prefix), stripped)

(***************************************************************************)
(* State.                                                                  *)
(***************************************************************************)
VARIABLES
    component,     \* which component is deployed: "chroot", "readonly", "tracing"
    config,        \* configuration store: the answer to get("path")
    provPreopens,  \* provider: names of the preopened directories, in order
    provFds,       \* provider: descriptor table, handle = index
    provStreams,   \* provider: directory-entry-stream table, handle = index
    descriptors,   \* exported Descriptor resources held by the guest
    streams,       \* exported DirectoryEntryStream resources held by the guest
    nCalls,        \* guest calls made so far
    call,          \* the guest call that has just returned: [op, self, args]
    result,        \* what that call returned
    events,        \* external interactions of that call, in order
    aborted,       \* the component panicked (trap): no further call is served
    sink,          \* logging sink: what became of the record of that call
    recording,     \* whether the session's calls are kept in `history`
    history,       \* guest calls and provider calls of the session, in order
    dropped,       \* exported resources the guest has dropped
    released       \* provider resources the component has dropped, in order

vars ==
    << component, config, provPreopens, provFds, provStreams, descriptors,
       streams, nCalls, call, result, events, aborted, sink, recording, history,
       dropped, released >>

tables == << provFds, provStreams, descriptors, streams >>

\* wasi::config::store::get(PATH_KEY): Err(_), Ok(None) or Ok(Some(path)).
ConfigError == [state |-> "error", value |-> <<>>]

ConfigNone == [state |-> "none", value |-> <<>>]

ConfigSome(path) == [state |-> "some", value |-> path]

P_sandbox == <<"/", "s", "a", "n", "d", "b", "o", "x">>

P_sandbox_up == <<"/", "s", "b", "/", ".", ".">>

ConfigValues == { ConfigError, ConfigNone, ConfigSome(P_sandbox), ConfigSome(P_sandbox_up) }

P_root == <<"/">>

P_data == <<"/", "d">>

\* What the provider preopens: nothing, one directory, or two.
PreopenChoices == { <<>>, <<P_root>>, <<P_data, P_root>> }

\* Entries of every directory of the provider.
DirEntries ==
    << [name |-> <<"a">>, type_ |-> <<"types::DescriptorType", "Directory">>],
       [name |-> <<"b">>, type_ |-> <<"types::DescriptorType", "RegularFile">>] >>

NoArgs == [none |-> TRUE]

\* A freshly instantiated component c; rec: the session is recorded.
InitRecording(c, rec) ==
    /\ component = c
    /\ config \in (IF c = "chroot" THEN ConfigValues ELSE {ConfigNone})
    /\ provPreopens \in PreopenChoices
    /\ provFds = <<>>
    /\ provStreams = <<>>
    /\ descriptors = <<>>
    /\ streams = <<>>
    /\ nCalls = 0
    /\ call = [op |-> "none", self |-> 0, args |-> NoArgs]
    /\ result = NoArgs
    /\ events = <<>>
    /\ aborted = FALSE
    /\ sink = "idle"
    /\ recording = rec
    /\ history = <<>>
    /\ dropped = [descriptors |-> {}, streams |-> {}]
    /\ released = <<>>

InitFor(c) == InitRecording(c, FALSE)

(***************************************************************************)
(* External interactions.                                                  *)
(***************************************************************************)
\* A call of provider function op on provider handle fd, and its answer.
PCall(op, fd, args, res) ==
    [kind |-> "provider", op |-> op, fd |-> fd, args |-> args, result |-> res]

\* wasi::config::store::get(key)
ConfigGet(key) == [kind |-> "config", key |-> key]

ProviderCalls(ev) == SelectSeq(ev, LAMBDA e : e.kind = "provider")

\* The component drops its handle of a provider resource ("descriptor" or
\* "directory-entry-stream"): the provider releases the resource.
PDrop(resource, handle) == [kind |-> "drop", resource |-> resource, handle |-> handle]

\* The provider resources released by the interactions ev, in order.
Releases(ev) ==
    LET drops == SelectSeq(ev, LAMBDA e : e.kind = "drop")
    IN  [ i \in DOMAIN drops |-> [resource |-> drops[i].resource, handle |-> drops[i].handle] ]

\* Errors the provider answers with in the explored behaviours.
ProviderErrors == { <<"types::ErrorCode", "NoEntry">>, <<"types::ErrorCode", "NotPermitted">> }

PErrs == { Err(c) : c \in ProviderErrors }

UnitOutcomes == { Ok(Unit) } \cup PErrs

\* Whether the provider opens / creates the handle asked for.
HandleOutcomes == { Ok([granted |-> TRUE]) } \cup PErrs

FlagsOutcomes == { Ok([flags |-> f]) : f \in SUBSET DescriptorFlagBits } \cup PErrs

TypeOutcomes == { Ok([type_ |-> t]) : t \in ProviderDescriptorTypes } \cup PErrs

ProviderStats ==
    { [ type_ |-> t, link_count |-> 1, size |-> 0, data_access_timestamp |-> 0,
        data_modification_timestamp |-> 0, status_change_timestamp |-> 0 ]
      : t \in { <<"types::DescriptorType", "Directory">>,
                <<"types::DescriptorType", "RegularFile">> } }

StatOutcomes == { Ok([stat |-> s]) : s \in ProviderStats } \cup PErrs

ReadOutcomes == { Ok([bytes |-> <<7>>, eof |-> e]) : e \in BOOLEAN } \cup PErrs

WriteOutcomes == { Ok([filesize |-> n]) : n \in Filesizes } \cup PErrs

StringOutcomes == { Ok([string |-> P_a_b]) } \cup PErrs

HashOutcomes == { Ok([hash |-> [lower |-> 1, upper |-> 2]]) } \cup PErrs

\* An io stream of the provider is passed to the guest as it is.
IoStreamOutcomes(fd) == { Ok([io_stream |-> fd]) } \cup PErrs

\* types::filesystem_error_code answers None or Some(code).
ErrorCodeOutcomes == { [some |-> FALSE] } \cup { [some |-> TRUE, code |-> c] : c \in ProviderErrors }

IoErrors == { "e1" }

(***************************************************************************)
(* The provider (external).                                                *)
(***************************************************************************)
\* preopens::get_directories(): a fresh handle per preopened directory.
ProvPreopenHandles ==
    [ i \in 1..Len(provPreopens) |->
        [origin |-> "preopen", parent |-> 0, path |-> provPreopens[i]] ]

ProvGetDirectoriesResult ==
    [ list |-> [ i \in 1..Len(provPreopens) |->
                   [fd |-> Len(provFds) + i, path |-> provPreopens[i]] ] ]

\* A handle the provider returns from open_at(path) on handle fd.
ProvOpened(fd, path) == [origin |-> "open_at", parent |-> fd, path |-> path]

\* What read_directory_entry answers on provider stream des when it succeeds.
ProvNextEntry(des) ==
    IF provStreams[des].pos < Len(DirEntries)
    THEN [some |-> TRUE, entry |-> DirEntries[provStreams[des].pos + 1]]
    ELSE [some |-> FALSE]

ProvAdvance(des) ==
    IF provStreams[des].pos < Len(DirEntries)
    THEN [provStreams EXCEPT ![des].pos = @ + 1]
    ELSE provStreams

(***************************************************************************)
(* Shape shared by the handlers of all three components.                   *)
(***************************************************************************)
\* The guest is between two calls: every call runs to completion before the
\* next one is accepted.
Idle == call.op = "none"

Ready(c) ==
    /\ component = c
    /\ ~aborted
    /\ Idle
    /\ nCalls < MaxCalls

\* The guest takes the result of the call that has returned; the record of
\* that call is cleared.
Resume ==
    /\ ~Idle
    /\ call' = [op |-> "none", self |-> 0, args |-> NoArgs]
    /\ result' = NoArgs
    /\ events' = <<>>
    /\ sink' = "idle"
    /\ UNCHANGED << component, config, provPreopens, tables, nCalls, aborted,
                    recording, history, dropped, released >>

\* log() returns nothing: the sink has stored the record or has failed to,
\* and the component is not told which.
SinkOutcomes == { "stored", "failed" }

\* The sink after a call with external interactions ev.
Logged(ev) ==
    sink' \in (IF \E i \in DOMAIN ev : ev[i].kind = "log" THEN SinkOutcomes ELSE {"idle"})

\* The session's record after guest call op on resource self with external
\* interactions ev: the guest call, then the provider calls it made.
Journal(op, self, args, ev) ==
    IF recording
    THEN LET pc == ProviderCalls(ev)
         IN  history' = history \o <<[by |-> "guest", op |-> op, on |-> self, args |-> args]>>
                                \o [ i \in DOMAIN pc |->
                                       [by |-> "component", op |-> pc[i].op, on |-> pc[i].fd] ]
    ELSE history' = history

\* The arguments that are flags.
FlagArgs == { "path_flags", "old_path_flags", "open_flags", "flags" }

\* Interaction e is a provider call one of whose flags arguments could not be
\* converted: the handler panicked before making it.
Unmade(e) ==
    /\ e.kind = "provider"
    /\ \E f \in DOMAIN e.args \cap FlagArgs : e.args[f] = Panicked

\* The interactions of ev the handler gets to make.
Made(ev) ==
    IF \E i \in DOMAIN ev : Unmade(ev[i])
    THEN SubSeq(ev, 1, (CHOOSE i \in DOMAIN ev : Unmade(ev[i]) /\ \A j \in 1..(i - 1) : ~Unmade(ev[j])) - 1)
    ELSE ev

\* The handler panics while converting an argument or the provider's answer.
Unwinds(ev, res) ==
    \/ \E i \in DOMAIN ev : Unmade(ev[i])
    \/ /\ DOMAIN res = {"ok", "v"}
       /\ res.ok
       /\ "flags" \in DOMAIN res.v
       /\ res.v.flags \cap Panicked # {}

\* The handler returns res after the external interactions ev.
Respond(op, self, args, ev, res) ==
    LET made == Made(ev)
        unwinds == Unwinds(ev, res)
    IN  /\ nCalls' = nCalls + 1
        /\ call' = [op |-> op, self |-> self, args |-> args]
        /\ events' = made
        /\ result' = IF unwinds THEN [panic |-> Panicked] ELSE res
        /\ aborted' = unwinds
        /\ Logged(made)
        /\ Journal(op, self, args, made)
        /\ released' = released \o Releases(made)
        /\ UNCHANGED << component, config, provPreopens, recording, dropped >>

\* Result::map(f)
map(r, f(_)) == IF r.ok THEN Ok(f(r.v)) ELSE r

\* Option::map(directory_entry_map)
option_map_entry(de) ==
    IF de.some THEN [some |-> TRUE, entry |-> directory_entry_map(de.entry)] ELSE de

\* is_same_object answers a bool, not a Result.
BoolOutcomes == { [bool |-> b] : b \in BOOLEAN }

\* Flags a guest presents to open_at of the chroot and tracing components.
OpenFlagChoices == { {}, {"CREATE"}, {"DIRECTORY"} }

DescriptorFlagChoices == { {"READ"}, {"READ", "WRITE"}, {"READ", "MUTATE_DIRECTORY"} }

\* Open flags a guest presents to open_at of the readonly component: no bit,
\* every bit alone, two bits, every bit.
ReadOnlyOpenFlagChoices ==
    { {} } \cup { {b} : b \in OpenFlagBits } \cup { {"CREATE", "DIRECTORY"}, OpenFlagBits }

\* Descriptor flags a guest presents to open_at of the readonly component: no
\* bit, every bit alone, every bit with READ, every bit.
ReadOnlyDescriptorFlagChoices ==
    { {} } \cup { {b} : b \in DescriptorFlagBits }
           \cup { {"READ", b} : b \in DescriptorFlagBits } \cup { DescriptorFlagBits }

\* trace!: log(Level::Trace, "filesystem", &format!(message, fields))
trace(message, fields) ==
    [kind |-> "log", level |-> "Trace", context |-> "filesystem",
     message |-> message, fields |-> fields]

(***************************************************************************)
(* Resource lifetimes.  The three components declare the same two wrapper  *)
(* structs: a descriptor wrapper { fd: Rc<types::Descriptor> } and a       *)
(* stream wrapper { des: Rc<types::DirectoryEntryStream> }, neither with   *)
(* a Drop impl.  When the guest drops an exported resource the wrapper is  *)
(* dropped, its Rc gives up one strong reference, and the provider handle  *)
(* is dropped with the last of them.                                       *)
(***************************************************************************)
LiveDescriptors == DOMAIN descriptors \ dropped.descriptors

LiveStreams == DOMAIN streams \ dropped.streams

\* Rc::strong_count of the reference to the provider descriptor fd.
DescriptorStrongCount(fd) == Cardinality({ d \in LiveDescriptors : descriptors[d].fd = fd })

\* Rc::strong_count of the reference to the provider stream des.
StreamStrongCount(des) == Cardinality({ s \in LiveStreams : streams[s].des = des })

\* The guest has dropped a resource; ev: what the component dropped in turn.
Dropped(op, self, ev) ==
    /\ nCalls' = nCalls + 1
    /\ call' = [op |-> op, self |-> self, args |-> NoArgs]
    /\ events' = ev
    /\ result' = NoArgs
    /\ aborted' = FALSE
    /\ Logged(ev)
    /\ Journal(op, self, NoArgs, ev)
    /\ released' = released \o Releases(ev)
    /\ UNCHANGED << component, config, provPreopens, tables, recording >>

\* Dropping a descriptor that also drops the handle it was opened from.
Mut_Descriptor_drop(d) ==
    LET fd == descriptors[d].fd
    IN  /\ Dropped("drop_descriptor", d,
                   <<PDrop("descriptor", fd)>> \o
                   (IF provFds[fd].origin = "open_at"
                    THEN <<PDrop("descriptor", provFds[fd].parent)>> ELSE <<>>))
        /\ dropped' = [dropped EXCEPT !.descriptors = @ \cup {d}]

\* The guest drops exported descriptor d.
Descriptor_drop(d) ==
    LET fd == descriptors[d].fd
    IN  /\ Dropped("drop_descriptor", d,
                   IF DescriptorStrongCount(fd) = 1 THEN <<PDrop("descriptor", fd)>> ELSE <<>>)
        /\ dropped' = [dropped EXCEPT !.descriptors = @ \cup {d}]

\* The guest drops exported directory-entry stream s.
DirectoryEntryStream_drop(s) ==
    LET des == streams[s].des
    IN  /\ Dropped("drop_directory_entry_stream", s,
                   IF StreamStrongCount(des) = 1
                   THEN <<PDrop("directory-entry-stream", des)>> ELSE <<>>)
        /\ dropped' = [dropped EXCEPT !.streams = @ \cup {s}]

(***************************************************************************)
(* chroot: src/components/chroot/src/lib.rs                                *)
(***************************************************************************)
ChrootDescriptor_new(fd) == [wrapper |-> "FilesystemChrootDescriptor", fd |-> fd]

Chroot_descriptor_map(descriptor) == ChrootDescriptor_new(descriptor)

ChrootDirectoryEntryStream_new(des) == [wrapper |-> "FilesystemChrootDirectoryEntryStream", des |-> des]

Chroot_directory_entry_stream_map(directory_entry_stream) ==
    ChrootDirectoryEntryStream_new(directory_entry_stream)

\* prefix_path's lookup: wasi::config::store::get(PATH_KEY).expect(..).expect(..)
Chroot_config_resolves == config.state = "some"

\* A failed expect() that makes the handler return an empty list.
Mut_Chroot_panic(op, ev, message) ==
    /\ Respond(op, 0, NoArgs, ev, [list |-> <<>>])
    /\ UNCHANGED << descriptors, streams, provStreams >>

\* The handler panics after the external interactions ev.
Chroot_panic(op, ev, message) ==
    /\ nCalls' = nCalls + 1
    /\ call' = [op |-> op, self |-> 0, args |-> NoArgs]
    /\ events' = ev
    /\ result' = [panic |-> message]
    /\ aborted' = TRUE
    /\ Logged(ev)
    /\ Journal(op, 0, NoArgs, ev)
    /\ UNCHANGED << component, config, provPreopens, descriptors, streams, provStreams,
                    recording, dropped, released >>

\* get_directories that confines the provider's last preopened directory.
Mut_Chroot_get_directories(r) ==
    LET dirs == ProvGetDirectoriesResult
        ev1 == PCall("get_directories", 0, NoArgs, dirs)
        ev2 == ConfigGet("path")
        handles == provFds \o ProvPreopenHandles
        chroot_fd == Len(handles) + 1
    IN  /\ Len(dirs.list) > 0
        /\ Chroot_config_resolves
        /\ r.ok
        /\ LET fd == dirs.list[Len(dirs.list)].fd
               chroot == prefix_path(config.value, dirs.list[Len(dirs.list)].path)
               pargs == [path_flags |-> {"SYMLINK_FOLLOW"}, path |-> chroot,
                         open_flags |-> {"DIRECTORY"}, flags |-> {"READ"}]
           IN  /\ Respond("get_directories", 0, NoArgs,
                          <<ev1, ev2, PCall("open_at", fd, pargs, Ok([fd |-> chroot_fd]))>>,
                          [list |-> << [descriptor |-> Len(descriptors) + 1,
                                        path |-> <<"/">>] >>])
               /\ provFds' = Append(handles, ProvOpened(fd, chroot))
               /\ descriptors' = Append(descriptors, Chroot_descriptor_map(chroot_fd))
               /\ UNCHANGED << streams, provStreams >>

\* get_directories that creates the root if it is missing and opens it for
\* changes.
Mut_Chroot_get_directories_create(r) ==
    LET dirs == ProvGetDirectoriesResult
        ev1 == PCall("get_directories", 0, NoArgs, dirs)
        ev2 == ConfigGet("path")
        handles == provFds \o ProvPreopenHandles
        chroot_fd == Len(handles) + 1
    IN  /\ Len(dirs.list) > 0
        /\ Chroot_config_resolves
        /\ r.ok
        /\ LET fd == dirs.list[1].fd
               chroot == prefix_path(config.value, dirs.list[1].path)
               pargs == [path_flags |-> {"SYMLINK_FOLLOW"}, path |-> chroot,
                         open_flags |-> {"CREATE", "DIRECTORY"},
                         flags |-> {"READ", "MUTATE_DIRECTORY"}]
           IN  /\ Respond("get_directories", 0, NoArgs,
                          <<ev1, ev2, PCall("open_at", fd, pargs, Ok([fd |-> chroot_fd]))>>,
                          [list |-> << [descriptor |-> Len(descriptors) + 1,
                                        path |-> <<"/">>] >>])
               /\ provFds' = Append(handles, ProvOpened(fd, chroot))
               /\ descriptors' = Append(descriptors, Chroot_descriptor_map(chroot_fd))
               /\ UNCHANGED << streams, provStreams >>

\* The provider's handles in `dirs` are dropped when the function returns.
Chroot_get_directories(r) ==
    LET dirs == ProvGetDirectoriesResult
        ev1 == PCall("get_directories", 0, NoArgs, dirs)
        ev2 == ConfigGet("path")
        handles == provFds \o ProvPreopenHandles
        chroot_fd == Len(handles) + 1
    IN  /\ IF Len(dirs.list) = 0
           THEN /\ Chroot_panic("get_directories", <<ev1>>, "Must have a preopened directory")
                /\ provFds' = handles
           ELSE LET fd == dirs.list[1].fd
                    path == dirs.list[1].path
                IN  IF ~Chroot_config_resolves
                    THEN /\ Chroot_panic("get_directories", <<ev1, ev2>>,
                                         IF config.state = "error" THEN "Config must resolve"
                                         ELSE "Config must contain 'path'")
                         /\ provFds' = handles
                    ELSE LET chroot == prefix_path(config.value, path)
                             pargs == [path_flags |-> {"SYMLINK_FOLLOW"}, path |-> chroot,
                                       open_flags |-> {"DIRECTORY"}, flags |-> {"READ"}]
                         IN  IF ~r.ok
                             THEN /\ Chroot_panic("get_directories",
                                                  <<ev1, ev2, PCall("open_at", fd, pargs, r)>>,
                                                  "chroot directory must exist")
                                  /\ provFds' = handles
                             ELSE /\ Respond("get_directories", 0, NoArgs,
                                             <<ev1, ev2, PCall("open_at", fd, pargs, Ok([fd |-> chroot_fd]))>>
                                                 \o [ i \in DOMAIN dirs.list |->
                                                        PDrop("descriptor", dirs.list[i].fd) ],
                                             [list |-> << [descriptor |-> Len(descriptors) + 1,
                                                           path |-> <<"/">>] >>])
                                  /\ provFds' = Append(handles, ProvOpened(fd, chroot))
                                  /\ descriptors' = Append(descriptors, Chroot_descriptor_map(chroot_fd))
                                  /\ UNCHANGED << streams, provStreams >>

Chroot_filesystem_error_code(err, r) ==
    /\ Respond("filesystem_error_code", 0, [err |-> err],
               <<PCall("filesystem_error_code", 0, [err |-> err], r)>>,
               IF r.some THEN [some |-> TRUE, code |-> error_code_map(r.code)] ELSE r)
    /\ UNCHANGED tables

Chroot_read_via_stream(d, offset, r) ==
    LET fd == descriptors[d].fd
    IN  /\ Respond("read_via_stream", d, [offset |-> offset],
                   <<PCall("read_via_stream", fd,
                          [offset |-> offset],
                          r)>>,
                   map_err(r))
        /\ UNCHANGED tables

Chroot_write_via_stream(d, offset, r) ==
    LET fd == descriptors[d].fd
    IN  /\ Respond("write_via_stream", d, [offset |-> offset],
                   <<PCall("write_via_stream", fd,
                          [offset |-> offset],
                          r)>>,
                   map_err(r))
        /\ UNCHANGED tables

Chroot_append_via_stream(d, r) ==
    LET fd == descriptors[d].fd
    IN  /\ Respond("append_via_stream", d, NoArgs,
                   <<PCall("append_via_stream", fd,
                          NoArgs,
                          r)>>,
                   map_err(r))
        /\ UNCHANGED tables

Chroot_advise(d, offset, length, advice, r) ==
    LET fd == descriptors[d].fd
    IN  /\ Respond("advise", d, [offset |-> offset, length |-> length, advice |-> advice],
                   <<PCall("advise", fd,
                          [offset |-> offset, length |-> length, advice |-> advice_map_in(advice)],
                          r)>>,
                   map_err(r))
        /\ UNCHANGED tables

\* sync_data that asks the provider twice.
Mut_Chroot_sync_data(d, r) ==
    LET fd == descriptors[d].fd
    IN  /\ Respond("sync_data", d, NoArgs,
                   <<PCall("sync_data", fd, NoArgs, r), PCall("sync_data", fd, NoArgs, r)>>,
                   map_err(r))
        /\ UNCHANGED tables

Chroot_sync_data(d, r) ==
    LET fd == descriptors[d].fd
    IN  /\ Respond("sync_data", d, NoArgs,
                   <<PCall("sync_data", fd,
                          NoArgs,
                          r)>>,
                   map_err(r))
        /\ UNCHANGED tables

Chroot_get_flags(d, r) ==
    LET fd == descriptors[d].fd
    IN  /\ Respond("get_flags", d, NoArgs,
                   <<PCall("get_flags", fd,
                          NoArgs,
                          r)>>,
                   map_err(map(r, LAMBDA v : [flags |-> descriptor_flags_map(v.flags)])))
        /\ UNCHANGED tables

Chroot_get_type(d, r) ==
    LET fd == descriptors[d].fd
    IN  /\ Respond("get_type", d, NoArgs,
                   <<PCall("get_type", fd,
                          NoArgs,
                          r)>>,
                   map_err(map(r, LAMBDA v : [type_ |-> descriptor_type_map(v.type_)])))
        /\ UNCHANGED tables

Chroot_set_size(d, size, r) ==
    LET fd == descriptors[d].fd
    IN  /\ Respond("set_size", d, [size |-> size],
                   <<PCall("set_size", fd,
                          [size |-> size],
                          r)>>,
                   map_err(r))
        /\ UNCHANGED tables

Chroot_set_times(d, data_access_timestamp, data_modification_timestamp, r) ==
    LET fd == descriptors[d].fd
    IN  /\ Respond("set_times", d, [data_access_timestamp |-> data_access_timestamp, data_modification_timestamp |-> data_modification_timestamp],
                   <<PCall("set_times", fd,
                          [data_access_timestamp |-> new_timestamp_map_in(data_access_timestamp),
                      data_modification_timestamp |-> new_timestamp_map_in(data_modification_timestamp)],
                          r)>>,
                   map_err(r))
        /\ UNCHANGED tables

Chroot_read(d, length, offset, r) ==
    LET fd == descriptors[d].fd
    IN  /\ Respond("read", d, [length |-> length, offset |-> offset],
                   <<PCall("read", fd,
                          [length |-> length, offset |-> offset],
                          r)>>,
                   map_err(r))
        /\ UNCHANGED tables

Chroot_write(d, buffer, offset, r) ==
    LET fd == descriptors[d].fd
    IN  /\ Respond("write", d, [buffer |-> buffer, offset |-> offset],
                   <<PCall("write", fd,
                          [buffer |-> buffer, offset |-> offset],
                          r)>>,
                   map_err(r))
        /\ UNCHANGED tables

Chroot_read_directory(d, r) ==
    LET fd == descriptors[d].fd
        des == Len(provStreams) + 1
    IN  /\ IF r.ok
           THEN /\ Respond("read_directory", d, NoArgs,
                           <<PCall("read_directory", fd, NoArgs, Ok([des |-> des]))>>,
                           Ok([directory_entry_stream |-> Len(streams) + 1]))
                /\ provStreams' = Append(provStreams, [fd |-> fd, pos |-> 0])
                /\ streams' = Append(streams, Chroot_directory_entry_stream_map(des))
                /\ UNCHANGED << provFds, descriptors >>
           ELSE /\ Respond("read_directory", d, NoArgs,
                           <<PCall("read_directory", fd, NoArgs, r)>>,
                           map_err(r))
                /\ UNCHANGED tables

Chroot_sync(d, r) ==
    LET fd == descriptors[d].fd
    IN  /\ Respond("sync", d, NoArgs,
                   <<PCall("sync", fd,
                          NoArgs,
                          r)>>,
                   map_err(r))
        /\ UNCHANGED tables

Chroot_create_directory_at(d, path, r) ==
    LET fd == descriptors[d].fd
    IN  /\ Respond("create_directory_at", d, [path |-> path],
                   <<PCall("create_directory_at", fd,
                          [path |-> path],
                          r)>>,
                   map_err(r))
        /\ UNCHANGED tables

Chroot_stat(d, r) ==
    LET fd == descriptors[d].fd
    IN  /\ Respond("stat", d, NoArgs,
                   <<PCall("stat", fd,
                          NoArgs,
                          r)>>,
                   map_err(map(r, LAMBDA v : [stat |-> descriptor_stat_map(v.stat)])))
        /\ UNCHANGED tables

Chroot_stat_at(d, path_flags, path, r) ==
    LET fd == descriptors[d].fd
    IN  /\ Respond("stat_at", d, [path_flags |-> path_flags, path |-> path],
                   <<PCall("stat_at", fd,
                          [path_flags |-> path_flags_in(path_flags), path |-> path],
                          r)>>,
                   map_err(map(r, LAMBDA v : [stat |-> descriptor_stat_map(v.stat)])))
        /\ UNCHANGED tables

Chroot_set_times_at(d, path_flags, path, data_access_timestamp, data_modification_timestamp, r) ==
    LET fd == descriptors[d].fd
    IN  /\ Respond("set_times_at", d, [path_flags |-> path_flags, path |-> path, data_access_timestamp |-> data_access_timestamp, data_modification_timestamp |-> data_modification_timestamp],
                   <<PCall("set_times_at", fd,
                          [path_flags |-> path_flags_in(path_flags), path |-> path,
                      data_access_timestamp |-> new_timestamp_map_in(data_access_timestamp),
                      data_modification_timestamp |-> new_timestamp_map_in(data_modification_timestamp)],
                          r)>>,
                   map_err(r))
        /\ UNCHANGED tables

Chroot_link_at(d, old_path_flags, old_path, new_descriptor, new_path, r) ==
    LET fd == descriptors[d].fd
    IN  /\ Respond("link_at", d, [old_path_flags |-> old_path_flags, old_path |-> old_path, new_descriptor |-> new_descriptor, new_path |-> new_path],
                   <<PCall("link_at", fd,
                          [old_path_flags |-> path_flags_in(old_path_flags), old_path |-> old_path,
                      new_descriptor |-> descriptors[new_descriptor].fd, new_path |-> new_path],
                          r)>>,
                   map_err(r))
        /\ UNCHANGED tables

\* What open_at hands to the provider's open_at for the guest's arguments.
Chroot_open_at_request(path_flags, path, open_flags, flags) ==
    [path_flags |-> path_flags_in(path_flags), path |-> path,
     open_flags |-> open_flags_in(open_flags), flags |-> descriptor_flags_in(flags)]

Chroot_open_at(d, path_flags, path, open_flags, flags, r) ==
    LET args == [path_flags |-> path_flags, path |-> path, open_flags |-> open_flags, flags |-> flags]
        fd == descriptors[d].fd
        pargs == Chroot_open_at_request(path_flags, path, open_flags, flags)
        opened == Len(provFds) + 1
    IN  IF r.ok
        THEN /\ Respond("open_at", d, args,
                        <<PCall("open_at", fd, pargs, Ok([fd |-> opened]))>>,
                        Ok([descriptor |-> Len(descriptors) + 1]))
             /\ provFds' = Append(provFds, ProvOpened(fd, path))
             /\ descriptors' = Append(descriptors, Chroot_descriptor_map(opened))
             /\ UNCHANGED << streams, provStreams >>
        ELSE /\ Respond("open_at", d, args,
                        <<PCall("open_at", fd, pargs, r)>>,
                        map_err(r))
             /\ UNCHANGED tables

Chroot_readlink_at(d, path, r) ==
    LET fd == descriptors[d].fd
    IN  /\ Respond("readlink_at", d, [path |-> path],
                   <<PCall("readlink_at", fd,
                          [path |-> path],
                          r)>>,
                   map_err(r))
        /\ UNCHANGED tables

Chroot_remove_directory_at(d, path, r) ==
    LET fd == descriptors[d].fd
    IN  /\ Respond("remove_directory_at", d, [path |-> path],
                   <<PCall("remove_directory_at", fd,
                          [path |-> path],
                          r)>>,
                   map_err(r))
        /\ UNCHANGED tables

\* rename_at that names the receiver's handle as the target directory.
Mut_Chroot_rename_at(d, old_path, new_descriptor, new_path, r) ==
    LET fd == descriptors[d].fd
    IN  /\ Respond("rename_at", d, [old_path |-> old_path, new_descriptor |-> new_descriptor, new_path |-> new_path],
                   <<PCall("rename_at", fd,
                          [old_path |-> old_path, new_descriptor |-> fd, new_path |-> new_path],
                          r)>>,
                   map_err(r))
        /\ UNCHANGED tables

Chroot_rename_at(d, old_path, new_descriptor, new_path, r) ==
    LET fd == descriptors[d].fd
    IN  /\ Respond("rename_at", d, [old_path |-> old_path, new_descriptor |-> new_descriptor, new_path |-> new_path],
                   <<PCall("rename_at", fd,
                          [old_path |-> old_path, new_descriptor |-> descriptors[new_descriptor].fd,
                      new_path |-> new_path],
                          r)>>,
                   map_err(r))
        /\ UNCHANGED tables

Chroot_symlink_at(d, old_path, new_path, r) ==
    LET fd == descriptors[d].fd
    IN  /\ Respond("symlink_at", d, [old_path |-> old_path, new_path |-> new_path],
                   <<PCall("symlink_at", fd,
                          [old_path |-> old_path, new_path |-> new_path],
                          r)>>,
                   map_err(r))
        /\ UNCHANGED tables

Chroot_unlink_file_at(d, path, r) ==
    LET fd == descriptors[d].fd
    IN  /\ Respond("unlink_file_at", d, [path |-> path],
                   <<PCall("unlink_file_at", fd,
                          [path |-> path],
                          r)>>,
                   map_err(r))
        /\ UNCHANGED tables

Chroot_is_same_object(d, other, r) ==
    LET fd == descriptors[d].fd
    IN  /\ Respond("is_same_object", d, [other |-> other],
                   <<PCall("is_same_object", fd,
                          [other |-> descriptors[other].fd],
                          r)>>,
                   r)
        /\ UNCHANGED tables

Chroot_metadata_hash(d, r) ==
    LET fd == descriptors[d].fd
    IN  /\ Respond("metadata_hash", d, NoArgs,
                   <<PCall("metadata_hash", fd,
                          NoArgs,
                          r)>>,
                   map_err(map(r, LAMBDA v : [hash |-> metadata_hash_value_map(v.hash)])))
        /\ UNCHANGED tables

Chroot_metadata_hash_at(d, path_flags, path, r) ==
    LET fd == descriptors[d].fd
    IN  /\ Respond("metadata_hash_at", d, [path_flags |-> path_flags, path |-> path],
                   <<PCall("metadata_hash_at", fd,
                          [path_flags |-> path_flags_in(path_flags), path |-> path],
                          r)>>,
                   map_err(map(r, LAMBDA v : [hash |-> metadata_hash_value_map(v.hash)])))
        /\ UNCHANGED tables

\* read_directory_entry that reads the first stream the guest was given.
Mut_Chroot_read_directory_entry(s, r) ==
    LET des == streams[1].des
        answer == IF r.ok THEN Ok([directory_entry |-> ProvNextEntry(des)]) ELSE r
    IN  /\ Respond("read_directory_entry", s, NoArgs,
                   <<PCall("read_directory_entry", des, NoArgs, answer)>>,
                   map_err(map(answer, LAMBDA v : [directory_entry |-> option_map_entry(v.directory_entry)])))
        /\ provStreams' = IF r.ok THEN ProvAdvance(des) ELSE provStreams
        /\ UNCHANGED << provFds, descriptors, streams >>

Chroot_read_directory_entry(s, r) ==
    LET des == streams[s].des
        answer == IF r.ok THEN Ok([directory_entry |-> ProvNextEntry(des)]) ELSE r
    IN  /\ Respond("read_directory_entry", s, NoArgs,
                   <<PCall("read_directory_entry", des, NoArgs, answer)>>,
                   map_err(map(answer, LAMBDA v : [directory_entry |-> option_map_entry(v.directory_entry)])))
        /\ provStreams' = IF r.ok THEN ProvAdvance(des) ELSE provStreams
        /\ UNCHANGED << provFds, descriptors, streams >>

NextChroot ==
    \/ Resume
    \/ Ready("chroot") /\ \E r \in HandleOutcomes : Chroot_get_directories(r)
    \/ Ready("chroot") /\ \E err \in IoErrors,
              r \in ErrorCodeOutcomes :
            Chroot_filesystem_error_code(err, r)
    \/ Ready("chroot") /\ \E d \in DOMAIN descriptors,
              offset \in Filesizes :
            \E r \in IoStreamOutcomes(descriptors[d].fd) : Chroot_read_via_stream(d, offset, r)
    \/ Ready("chroot") /\ \E d \in DOMAIN descriptors,
              offset \in Filesizes :
            \E r \in IoStreamOutcomes(descriptors[d].fd) : Chroot_write_via_stream(d, offset, r)
    \/ Ready("chroot") /\ \E d \in DOMAIN descriptors :
            \E r \in IoStreamOutcomes(descriptors[d].fd) : Chroot_append_via_stream(d, r)
    \/ Ready("chroot") /\ \E d \in DOMAIN descriptors,
              offset \in Filesizes,
              length \in Lengths,
              advice \in Advices,
              r \in UnitOutcomes :
            Chroot_advise(d, offset, length, advice, r)
    \/ Ready("chroot") /\ \E d \in DOMAIN descriptors,
              r \in UnitOutcomes :
            Chroot_sync_data(d, r)
    \/ Ready("chroot") /\ \E d \in DOMAIN descriptors,
              r \in FlagsOutcomes :
            Chroot_get_flags(d, r)
    \/ Ready("chroot") /\ \E d \in DOMAIN descriptors,
              r \in TypeOutcomes :
            Chroot_get_type(d, r)
    \/ Ready("chroot") /\ \E d \in DOMAIN descriptors,
              size \in Filesizes,
              r \in UnitOutcomes :
            Chroot_set_size(d, size, r)
    \/ Ready("chroot") /\ \E d \in DOMAIN descriptors,
              data_access_timestamp \in NewTimestamps,
              data_modification_timestamp \in NewTimestamps,
              r \in UnitOutcomes :
            Chroot_set_times(d, data_access_timestamp, data_modification_timestamp, r)
    \/ Ready("chroot") /\ \E d \in DOMAIN descriptors,
              length \in Lengths,
              offset \in Filesizes,
              r \in ReadOutcomes :
            Chroot_read(d, length, offset, r)
    \/ Ready("chroot") /\ \E d \in DOMAIN descriptors,
              buffer \in Buffers,
              offset \in Filesizes,
              r \in WriteOutcomes :
            Chroot_write(d, buffer, offset, r)
    \/ Ready("chroot") /\ \E d \in DOMAIN descriptors,
              r \in HandleOutcomes :
            Chroot_read_directory(d, r)
    \/ Ready("chroot") /\ \E d \in DOMAIN descriptors, r \in UnitOutcomes : Chroot_sync(d, r)
    \/ Ready("chroot") /\ \E d \in DOMAIN descriptors,
              path \in GuestPaths,
              r \in UnitOutcomes :
            Chroot_create_directory_at(d, path, r)
    \/ Ready("chroot") /\ \E d \in DOMAIN descriptors, r \in StatOutcomes : Chroot_stat(d, r)
    \/ Ready("chroot") /\ \E d \in DOMAIN descriptors,
              path_flags \in SUBSET PathFlagBits,
              path \in GuestPaths,
              r \in StatOutcomes :
            Chroot_stat_at(d, path_flags, path, r)
    \/ Ready("chroot") /\ \E d \in DOMAIN descriptors,
              path_flags \in SUBSET PathFlagBits,
              path \in GuestPaths,
              data_access_timestamp \in NewTimestamps,
              data_modification_timestamp \in NewTimestamps,
              r \in UnitOutcomes :
            Chroot_set_times_at(d, path_flags, path, data_access_timestamp, data_modification_timestamp, r)
    \/ Ready("chroot") /\ \E d \in DOMAIN descriptors,
              old_path_flags \in SUBSET PathFlagBits,
              old_path \in GuestPaths,
              new_descriptor \in DOMAIN descriptors,
              new_path \in GuestNewPaths,
              r \in UnitOutcomes :
            Chroot_link_at(d, old_path_flags, old_path, new_descriptor, new_path, r)
    \/ Ready("chroot") /\ \E d \in DOMAIN descriptors,
              path_flags \in SUBSET PathFlagBits,
              path \in GuestPaths,
              open_flags \in OpenFlagChoices,
              flags \in DescriptorFlagChoices,
              r \in HandleOutcomes :
            Chroot_open_at(d, path_flags, path, open_flags, flags, r)
    \/ Ready("chroot") /\ \E d \in DOMAIN descriptors,
              path \in GuestPaths,
              r \in StringOutcomes :
            Chroot_readlink_at(d, path, r)
    \/ Ready("chroot") /\ \E d \in DOMAIN descriptors,
              path \in GuestPaths,
              r \in UnitOutcomes :
            Chroot_remove_directory_at(d, path, r)
    \/ Ready("chroot") /\ \E d \in DOMAIN descriptors,
              old_path \in GuestPaths,
              new_descriptor \in DOMAIN descriptors,
              new_path \in GuestNewPaths,
              r \in UnitOutcomes :
            Chroot_rename_at(d, old_path, new_descriptor, new_path, r)
    \/ Ready("chroot") /\ \E d \in DOMAIN descriptors,
              old_path \in GuestPaths,
              new_path \in GuestNewPaths,
              r \in UnitOutcomes :
            Chroot_symlink_at(d, old_path, new_path, r)
    \/ Ready("chroot") /\ \E d \in DOMAIN descriptors,
              path \in GuestPaths,
              r \in UnitOutcomes :
            Chroot_unlink_file_at(d, path, r)
    \/ Ready("chroot") /\ \E d \in DOMAIN descriptors,
              other \in DOMAIN descriptors,
              r \in BoolOutcomes :
            Chroot_is_same_object(d, other, r)
    \/ Ready("chroot") /\ \E d \in DOMAIN descriptors,
              r \in HashOutcomes :
            Chroot_metadata_hash(d, r)
    \/ Ready("chroot") /\ \E d \in DOMAIN descriptors,
              path_flags \in SUBSET PathFlagBits,
              path \in GuestPaths,
              r \in HashOutcomes :
            Chroot_metadata_hash_at(d, path_flags, path, r)
    \/ Ready("chroot") /\ \E s \in DOMAIN streams,
              r \in HandleOutcomes :
            Chroot_read_directory_entry(s, r)

InitChroot == InitFor("chroot")

SpecChroot == InitChroot /\ [][NextChroot]_vars

(***************************************************************************)
(* readonly: src/components/readonly/src/lib.rs                            *)
(***************************************************************************)
ReadOnlyDescriptor_new(fd) == [wrapper |-> "ReadOnlyDescriptor", fd |-> fd]

\* descriptor_map that hands out the provider's descriptor as it is.
Mut_ReadOnly_descriptor_map(descriptor) == [wrapper |-> "types::Descriptor", fd |-> descriptor]

ReadOnly_descriptor_map(descriptor) == ReadOnlyDescriptor_new(descriptor)

ReadOnlyDirectoryEntryStream_new(des) == [wrapper |-> "ReadOnlyDirectoryEntryStream", des |-> des]

ReadOnly_directory_entry_stream_map(directory_entry_stream) ==
    ReadOnlyDirectoryEntryStream_new(directory_entry_stream)

\* get_directories that exports every preopened directory under the name "/".
Mut_ReadOnly_get_directories ==
    LET dirs == ProvGetDirectoriesResult
    IN  /\ Respond("get_directories", 0, NoArgs,
                   <<PCall("get_directories", 0, NoArgs, dirs)>>,
                   [list |-> [ i \in 1..Len(dirs.list) |->
                                 [descriptor |-> Len(descriptors) + i, path |-> <<"/">>] ]])
        /\ provFds' = provFds \o ProvPreopenHandles
        /\ descriptors' = descriptors \o
               [ i \in 1..Len(dirs.list) |-> ReadOnlyDescriptor_new(dirs.list[i].fd) ]
        /\ UNCHANGED << streams, provStreams >>

ReadOnly_get_directories ==
    LET dirs == ProvGetDirectoriesResult
    IN  /\ Respond("get_directories", 0, NoArgs,
                   <<PCall("get_directories", 0, NoArgs, dirs)>>,
                   [list |-> [ i \in 1..Len(dirs.list) |->
                                 [descriptor |-> Len(descriptors) + i, path |-> dirs.list[i].path] ]])
        /\ provFds' = provFds \o ProvPreopenHandles
        /\ descriptors' = descriptors \o
               [ i \in 1..Len(dirs.list) |-> ReadOnlyDescriptor_new(dirs.list[i].fd) ]
        /\ UNCHANGED << streams, provStreams >>

ReadOnly_filesystem_error_code(err, r) ==
    /\ Respond("filesystem_error_code", 0, [err |-> err],
               <<PCall("filesystem_error_code", 0, [err |-> err], r)>>,
               IF r.some THEN [some |-> TRUE, code |-> error_code_map(r.code)] ELSE r)
    /\ UNCHANGED tables

ReadOnly_read_via_stream(d, offset, r) ==
    LET fd == descriptors[d].fd
    IN  /\ Respond("read_via_stream", d, [offset |-> offset],
                   <<PCall("read_via_stream", fd,
                          [offset |-> offset],
                          r)>>,
                   map_err(r))
        /\ UNCHANGED tables

ReadOnly_write_via_stream(d, offset) ==
    /\ Respond("write_via_stream", d, [offset |-> offset], <<>>, Err(<<"ErrorCode", "ReadOnly">>))
    /\ UNCHANGED tables

ReadOnly_append_via_stream(d) ==
    /\ Respond("append_via_stream", d, NoArgs, <<>>, Err(<<"ErrorCode", "ReadOnly">>))
    /\ UNCHANGED tables

ReadOnly_advise(d, offset, length, advice, r) ==
    LET fd == descriptors[d].fd
    IN  /\ Respond("advise", d, [offset |-> offset, length |-> length, advice |-> advice],
                   <<PCall("advise", fd,
                          [offset |-> offset, length |-> length, advice |-> advice_map_in(advice)],
                          r)>>,
                   map_err(r))
        /\ UNCHANGED tables

ReadOnly_sync_data(d) ==
    /\ Respond("sync_data", d, NoArgs, <<>>, Err(<<"ErrorCode", "ReadOnly">>))
    /\ UNCHANGED tables

\* The closure without the MUTATE_DIRECTORY line.
Mut_ReadOnly_get_flags_difference(flags) ==
    ((flags \ {"WRITE"}) \ {"FILE_INTEGRITY_SYNC"}) \ {"DATA_INTEGRITY_SYNC"}

\* The closure get_flags applies to the provider's flags.
ReadOnly_get_flags_difference(flags) ==
    (((flags \ {"WRITE"}) \ {"FILE_INTEGRITY_SYNC"}) \ {"DATA_INTEGRITY_SYNC"}) \ {"MUTATE_DIRECTORY"}

\* get_flags that clears requested-write-sync as well.
Mut_ReadOnly_get_flags(d, r) ==
    LET fd == descriptors[d].fd
    IN  /\ Respond("get_flags", d, NoArgs,
                   <<PCall("get_flags", fd, NoArgs, r)>>,
                   map_err(map(map(r, LAMBDA v : [flags |-> descriptor_flags_map(v.flags)]),
                           LAMBDA v : [flags |-> ReadOnly_get_flags_difference(v.flags)
                                                     \ {"REQUESTED_WRITE_SYNC"}])))
        /\ UNCHANGED tables

ReadOnly_get_flags(d, r) ==
    LET fd == descriptors[d].fd
    IN  /\ Respond("get_flags", d, NoArgs,
                   <<PCall("get_flags", fd,
                          NoArgs,
                          r)>>,
                   map_err(map(map(r, LAMBDA v : [flags |-> descriptor_flags_map(v.flags)]),
                           LAMBDA v : [flags |-> ReadOnly_get_flags_difference(v.flags)])))
        /\ UNCHANGED tables

ReadOnly_get_type(d, r) ==
    LET fd == descriptors[d].fd
    IN  /\ Respond("get_type", d, NoArgs,
                   <<PCall("get_type", fd,
                          NoArgs,
                          r)>>,
                   map_err(map(r, LAMBDA v : [type_ |-> descriptor_type_map(v.type_)])))
        /\ UNCHANGED tables

ReadOnly_set_size(d, size) ==
    /\ Respond("set_size", d, [size |-> size], <<>>, Err(<<"ErrorCode", "ReadOnly">>))
    /\ UNCHANGED tables

ReadOnly_set_times(d, data_access_timestamp, data_modification_timestamp) ==
    /\ Respond("set_times", d, [data_access_timestamp |-> data_access_timestamp, data_modification_timestamp |-> data_modification_timestamp], <<>>, Err(<<"ErrorCode", "ReadOnly">>))
    /\ UNCHANGED tables

ReadOnly_read(d, length, offset, r) ==
    LET fd == descriptors[d].fd
    IN  /\ Respond("read", d, [length |-> length, offset |-> offset],
                   <<PCall("read", fd,
                          [length |-> length, offset |-> offset],
                          r)>>,
                   map_err(r))
        /\ UNCHANGED tables

\* write that passes the buffer to the provider.
Mut_ReadOnly_write(d, buffer, offset) ==
    LET fd == descriptors[d].fd
        r == Ok([filesize |-> Len(buffer)])
    IN  /\ Respond("write", d, [buffer |-> buffer, offset |-> offset],
                   <<PCall("write", fd, [buffer |-> buffer, offset |-> offset], r)>>,
                   map_err(r))
        /\ UNCHANGED tables

ReadOnly_write(d, buffer, offset) ==
    /\ Respond("write", d, [buffer |-> buffer, offset |-> offset], <<>>, Err(<<"ErrorCode", "ReadOnly">>))
    /\ UNCHANGED tables

ReadOnly_read_directory(d, r) ==
    LET fd == descriptors[d].fd
        des == Len(provStreams) + 1
    IN  /\ IF r.ok
           THEN /\ Respond("read_directory", d, NoArgs,
                           <<PCall("read_directory", fd, NoArgs, Ok([des |-> des]))>>,
                           Ok([directory_entry_stream |-> Len(streams) + 1]))
                /\ provStreams' = Append(provStreams, [fd |-> fd, pos |-> 0])
                /\ streams' = Append(streams, ReadOnly_directory_entry_stream_map(des))
                /\ UNCHANGED << provFds, descriptors >>
           ELSE /\ Respond("read_directory", d, NoArgs,
                           <<PCall("read_directory", fd, NoArgs, r)>>,
                           map_err(r))
                /\ UNCHANGED tables

ReadOnly_sync(d) ==
    /\ Respond("sync", d, NoArgs, <<>>, Err(<<"ErrorCode", "ReadOnly">>))
    /\ UNCHANGED tables

ReadOnly_create_directory_at(d, path) ==
    /\ Respond("create_directory_at", d, [path |-> path], <<>>, Err(<<"ErrorCode", "ReadOnly">>))
    /\ UNCHANGED tables

ReadOnly_stat(d, r) ==
    LET fd == descriptors[d].fd
    IN  /\ Respond("stat", d, NoArgs,
                   <<PCall("stat", fd,
                          NoArgs,
                          r)>>,
                   map_err(map(r, LAMBDA v : [stat |-> descriptor_stat_map(v.stat)])))
        /\ UNCHANGED tables

\* stat_at that never follows a symbolic link.
Mut_ReadOnly_stat_at(d, path_flags, path, r) ==
    LET fd == descriptors[d].fd
    IN  /\ Respond("stat_at", d, [path_flags |-> path_flags, path |-> path],
                   <<PCall("stat_at", fd, [path_flags |-> {}, path |-> path], r)>>,
                   map_err(map(r, LAMBDA v : [stat |-> descriptor_stat_map(v.stat)])))
        /\ UNCHANGED tables

ReadOnly_stat_at(d, path_flags, path, r) ==
    LET fd == descriptors[d].fd
    IN  /\ Respond("stat_at", d, [path_flags |-> path_flags, path |-> path],
                   <<PCall("stat_at", fd,
                          [path_flags |-> path_flags_in(path_flags), path |-> path],
                          r)>>,
                   map_err(map(r, LAMBDA v : [stat |-> descriptor_stat_map(v.stat)])))
        /\ UNCHANGED tables

ReadOnly_set_times_at(d, path_flags, path, data_access_timestamp, data_modification_timestamp) ==
    /\ Respond("set_times_at", d, [path_flags |-> path_flags, path |-> path, data_access_timestamp |-> data_access_timestamp, data_modification_timestamp |-> data_modification_timestamp], <<>>, Err(<<"ErrorCode", "ReadOnly">>))
    /\ UNCHANGED tables

ReadOnly_link_at(d, old_path_flags, old_path, new_descriptor, new_path) ==
    /\ Respond("link_at", d, [old_path_flags |-> old_path_flags, old_path |-> old_path, new_descriptor |-> new_descriptor, new_path |-> new_path], <<>>, Err(<<"ErrorCode", "ReadOnly">>))
    /\ UNCHANGED tables

\* The flags open_at refuses before forwarding.
\* A check that also refuses once the guest holds more than one descriptor.
Mut_ReadOnly_open_at_denies(open_flags, flags) ==
    \/ open_flags \cap {"CREATE", "EXCLUSIVE", "TRUNCATE"} # {}
    \/ flags \cap {"WRITE", "FILE_INTEGRITY_SYNC", "DATA_INTEGRITY_SYNC",
                   "REQUESTED_WRITE_SYNC"} # {}
    \/ Len(descriptors) > 1

ReadOnly_open_at_denies(open_flags, flags) ==
    \/ "CREATE" \in open_flags
    \/ "EXCLUSIVE" \in open_flags
    \/ "TRUNCATE" \in open_flags
    \/ "WRITE" \in flags
    \/ "FILE_INTEGRITY_SYNC" \in flags
    \/ "DATA_INTEGRITY_SYNC" \in flags
    \/ "REQUESTED_WRITE_SYNC" \in flags

ReadOnly_open_at(d, path_flags, path, open_flags, flags, r) ==
    LET args == [path_flags |-> path_flags, path |-> path, open_flags |-> open_flags, flags |-> flags]
    IN  /\ IF ReadOnly_open_at_denies(open_flags, flags)
           THEN /\ Respond("open_at", d, args, <<>>, Err(<<"ErrorCode", "ReadOnly">>))
                /\ UNCHANGED tables
           ELSE LET fd == descriptors[d].fd
                    pargs == [path_flags |-> path_flags_in(path_flags), path |-> path,
                              open_flags |-> open_flags_in(open_flags), flags |-> descriptor_flags_in(flags)]
                    opened == Len(provFds) + 1
                IN  IF r.ok
                    THEN /\ Respond("open_at", d, args,
                                    <<PCall("open_at", fd, pargs, Ok([fd |-> opened]))>>,
                                    Ok([descriptor |-> Len(descriptors) + 1]))
                         /\ provFds' = Append(provFds, ProvOpened(fd, path))
                         /\ descriptors' = Append(descriptors, ReadOnly_descriptor_map(opened))
                         /\ UNCHANGED << streams, provStreams >>
                    ELSE /\ Respond("open_at", d, args,
                                    <<PCall("open_at", fd, pargs, r)>>,
                                    map_err(r))
                         /\ UNCHANGED tables

ReadOnly_readlink_at(d, path, r) ==
    LET fd == descriptors[d].fd
    IN  /\ Respond("readlink_at", d, [path |-> path],
                   <<PCall("readlink_at", fd,
                          [path |-> path],
                          r)>>,
                   map_err(r))
        /\ UNCHANGED tables

ReadOnly_remove_directory_at(d, path) ==
    /\ Respond("remove_directory_at", d, [path |-> path], <<>>, Err(<<"ErrorCode", "ReadOnly">>))
    /\ UNCHANGED tables

\* rename_at that forwards to the provider, as the other components do.
Mut_ReadOnly_rename_at(d, old_path, new_descriptor, new_path) ==
    \E r \in UnitOutcomes :
        /\ Respond("rename_at", d,
                   [old_path |-> old_path, new_descriptor |-> new_descriptor, new_path |-> new_path],
                   <<PCall("rename_at", descriptors[d].fd,
                           [old_path |-> old_path, new_descriptor |-> descriptors[new_descriptor].fd,
                            new_path |-> new_path],
                           r)>>,
                   map_err(r))
        /\ UNCHANGED tables

ReadOnly_rename_at(d, old_path, new_descriptor, new_path) ==
    /\ Respond("rename_at", d, [old_path |-> old_path, new_descriptor |-> new_descriptor, new_path |-> new_path], <<>>, Err(<<"ErrorCode", "ReadOnly">>))
    /\ UNCHANGED tables

ReadOnly_symlink_at(d, old_path, new_path) ==
    /\ Respond("symlink_at", d, [old_path |-> old_path, new_path |-> new_path], <<>>, Err(<<"ErrorCode", "ReadOnly">>))
    /\ UNCHANGED tables

ReadOnly_unlink_file_at(d, path) ==
    /\ Respond("unlink_file_at", d, [path |-> path], <<>>, Err(<<"ErrorCode", "ReadOnly">>))
    /\ UNCHANGED tables

ReadOnly_is_same_object(d, other, r) ==
    LET fd == descriptors[d].fd
    IN  /\ Respond("is_same_object", d, [other |-> other],
                   <<PCall("is_same_object", fd,
                          [other |-> descriptors[other].fd],
                          r)>>,
                   r)
        /\ UNCHANGED tables

ReadOnly_metadata_hash(d, r) ==
    LET fd == descriptors[d].fd
    IN  /\ Respond("metadata_hash", d, NoArgs,
                   <<PCall("metadata_hash", fd,
                          NoArgs,
                          r)>>,
                   map_err(map(r, LAMBDA v : [hash |-> metadata_hash_value_map(v.hash)])))
        /\ UNCHANGED tables

ReadOnly_metadata_hash_at(d, path_flags, path, r) ==
    LET fd == descriptors[d].fd
    IN  /\ Respond("metadata_hash_at", d, [path_flags |-> path_flags, path |-> path],
                   <<PCall("metadata_hash_at", fd,
                          [path_flags |-> path_flags_in(path_flags), path |-> path],
                          r)>>,
                   map_err(map(r, LAMBDA v : [hash |-> metadata_hash_value_map(v.hash)])))
        /\ UNCHANGED tables

ReadOnly_read_directory_entry(s, r) ==
    LET des == streams[s].des
        answer == IF r.ok THEN Ok([directory_entry |-> ProvNextEntry(des)]) ELSE r
    IN  /\ Respond("read_directory_entry", s, NoArgs,
                   <<PCall("read_directory_entry", des, NoArgs, answer)>>,
                   map_err(map(answer, LAMBDA v : [directory_entry |-> option_map_entry(v.directory_entry)])))
        /\ provStreams' = IF r.ok THEN ProvAdvance(des) ELSE provStreams
        /\ UNCHANGED << provFds, descriptors, streams >>

NextReadOnly ==
    \/ Resume
    \/ Ready("readonly") /\ ReadOnly_get_directories
    \/ Ready("readonly") /\ \E err \in IoErrors,
              r \in ErrorCodeOutcomes :
            ReadOnly_filesystem_error_code(err, r)
    \/ Ready("readonly") /\ \E d \in DOMAIN descriptors,
              offset \in Filesizes :
            \E r \in IoStreamOutcomes(descriptors[d].fd) : ReadOnly_read_via_stream(d, offset, r)
    \/ Ready("readonly") /\ \E d \in DOMAIN descriptors,
              offset \in Filesizes :
            ReadOnly_write_via_stream(d, offset)
    \/ Ready("readonly") /\ \E d \in DOMAIN descriptors : ReadOnly_append_via_stream(d)
    \/ Ready("readonly") /\ \E d \in DOMAIN descriptors,
              offset \in Filesizes,
              length \in Lengths,
              advice \in Advices,
              r \in UnitOutcomes :
            ReadOnly_advise(d, offset, length, advice, r)
    \/ Ready("readonly") /\ \E d \in DOMAIN descriptors : ReadOnly_sync_data(d)
    \/ Ready("readonly") /\ \E d \in DOMAIN descriptors,
              r \in FlagsOutcomes :
            ReadOnly_get_flags(d, r)
    \/ Ready("readonly") /\ \E d \in DOMAIN descriptors,
              r \in TypeOutcomes :
            ReadOnly_get_type(d, r)
    \/ Ready("readonly") /\ \E d \in DOMAIN descriptors,
              size \in Filesizes :
            ReadOnly_set_size(d, size)
    \/ Ready("readonly") /\ \E d \in DOMAIN descriptors,
              data_access_timestamp \in NewTimestamps,
              data_modification_timestamp \in NewTimestamps :
            ReadOnly_set_times(d, data_access_timestamp, data_modification_timestamp)
    \/ Ready("readonly") /\ \E d \in DOMAIN descriptors,
              length \in Lengths,
              offset \in Filesizes,
              r \in ReadOutcomes :
            ReadOnly_read(d, length, offset, r)
    \/ Ready("readonly") /\ \E d \in DOMAIN descriptors,
              buffer \in Buffers,
              offset \in Filesizes :
            ReadOnly_write(d, buffer, offset)
    \/ Ready("readonly") /\ \E d \in DOMAIN descriptors,
              r \in HandleOutcomes :
            ReadOnly_read_directory(d, r)
    \/ Ready("readonly") /\ \E d \in DOMAIN descriptors : ReadOnly_sync(d)
    \/ Ready("readonly") /\ \E d \in DOMAIN descriptors,
              path \in GuestPaths :
            ReadOnly_create_directory_at(d, path)
    \/ Ready("readonly") /\ \E d \in DOMAIN descriptors,
              r \in StatOutcomes :
            ReadOnly_stat(d, r)
    \/ Ready("readonly") /\ \E d \in DOMAIN descriptors,
              path_flags \in SUBSET PathFlagBits,
              path \in GuestPaths,
              r \in StatOutcomes :
            ReadOnly_stat_at(d, path_flags, path, r)
    \/ Ready("readonly") /\ \E d \in DOMAIN descriptors,
              path_flags \in SUBSET PathFlagBits,
              path \in GuestPaths,
              data_access_timestamp \in NewTimestamps,
              data_modification_timestamp \in NewTimestamps :
            ReadOnly_set_times_at(d, path_flags, path, data_access_timestamp, data_modification_timestamp)
    \/ Ready("readonly") /\ \E d \in DOMAIN descriptors,
              old_path_flags \in SUBSET PathFlagBits,
              old_path \in GuestPaths,
              new_descriptor \in DOMAIN descriptors,
              new_path \in GuestNewPaths :
            ReadOnly_link_at(d, old_path_flags, old_path, new_descriptor, new_path)
    \/ Ready("readonly") /\ \E d \in DOMAIN descriptors,
              path_flags \in SUBSET PathFlagBits,
              path \in GuestPaths,
              open_flags \in ReadOnlyOpenFlagChoices,
              flags \in ReadOnlyDescriptorFlagChoices,
              r \in HandleOutcomes :
            ReadOnly_open_at(d, path_flags, path, open_flags, flags, r)
    \/ Ready("readonly") /\ \E d \in DOMAIN descriptors,
              path \in GuestPaths,
              r \in StringOutcomes :
            ReadOnly_readlink_at(d, path, r)
    \/ Ready("readonly") /\ \E d \in DOMAIN descriptors,
              path \in GuestPaths :
            ReadOnly_remove_directory_at(d, path)
    \/ Ready("readonly") /\ \E d \in DOMAIN descriptors,
              old_path \in GuestPaths,
              new_descriptor \in DOMAIN descriptors,
              new_path \in GuestNewPaths :
            ReadOnly_rename_at(d, old_path, new_descriptor, new_path)
    \/ Ready("readonly") /\ \E d \in DOMAIN descriptors,
              old_path \in GuestPaths,
              new_path \in GuestNewPaths :
            ReadOnly_symlink_at(d, old_path, new_path)
    \/ Ready("readonly") /\ \E d \in DOMAIN descriptors,
              path \in GuestPaths :
            ReadOnly_unlink_file_at(d, path)
    \/ Ready("readonly") /\ \E d \in DOMAIN descriptors,
              other \in DOMAIN descriptors,
              r \in BoolOutcomes :
            ReadOnly_is_same_object(d, other, r)
    \/ Ready("readonly") /\ \E d \in DOMAIN descriptors,
              r \in HashOutcomes :
            ReadOnly_metadata_hash(d, r)
    \/ Ready("readonly") /\ \E d \in DOMAIN descriptors,
              path_flags \in SUBSET PathFlagBits,
              path \in GuestPaths,
              r \in HashOutcomes :
            ReadOnly_metadata_hash_at(d, path_flags, path, r)
    \/ Ready("readonly") /\ \E s \in DOMAIN streams,
              r \in HandleOutcomes :
            ReadOnly_read_directory_entry(s, r)

InitReadOnly == InitFor("readonly")

SpecReadOnly == InitReadOnly /\ [][NextReadOnly]_vars

(***************************************************************************)
(* tracing: src/components/tracing/src/lib.rs                              *)
(***************************************************************************)
TracingDescriptor_new(fd) == [wrapper |-> "TracingDescriptor", fd |-> fd]

Tracing_descriptor_map(descriptor) == TracingDescriptor_new(descriptor)

TracingDirectoryEntryStream_new(des) == [wrapper |-> "TracingDirectoryEntryStream", des |-> des]

\* directory_entry_stream_map that hands out the provider's stream as it is.
Mut_Tracing_directory_entry_stream_map(directory_entry_stream) ==
    [wrapper |-> "types::DirectoryEntryStream", des |-> directory_entry_stream]

Tracing_directory_entry_stream_map(directory_entry_stream) ==
    TracingDirectoryEntryStream_new(directory_entry_stream)

Tracing_get_directories ==
    LET dirs == ProvGetDirectoriesResult
    IN  /\ Respond("get_directories", 0, NoArgs,
                   <<trace("CALL wasi:filesystem/preopens#get-directories", NoArgs), PCall("get_directories", 0, NoArgs, dirs)>>,
                   [list |-> [ i \in 1..Len(dirs.list) |->
                                 [descriptor |-> Len(descriptors) + i, path |-> dirs.list[i].path] ]])
        /\ provFds' = provFds \o ProvPreopenHandles
        /\ descriptors' = descriptors \o
               [ i \in 1..Len(dirs.list) |-> TracingDescriptor_new(dirs.list[i].fd) ]
        /\ UNCHANGED << streams, provStreams >>

Tracing_filesystem_error_code(err, r) ==
    /\ Respond("filesystem_error_code", 0, [err |-> err],
               <<trace("CALL wasi:filesystem/types#filesystem-error-code", NoArgs), PCall("filesystem_error_code", 0, [err |-> err], r)>>,
               IF r.some THEN [some |-> TRUE, code |-> error_code_map(r.code)] ELSE r)
    /\ UNCHANGED tables

\* read_via_stream that gives up, with an I/O error, when its record could
\* not be stored.
Mut_Tracing_read_via_stream(d, offset, r) ==
    LET fd == descriptors[d].fd
        record == trace("CALL wasi:filesystem/types#descriptor.read-via-stream FD={self:?} OFFSET={offset}",
                        [self |-> descriptors[d], offset |-> offset])
    IN  \E outcome \in SinkOutcomes :
            /\ sink' = outcome
            /\ IF outcome = "failed"
               THEN Respond("read_via_stream", d, [offset |-> offset], <<record>>,
                            Err(<<"ErrorCode", "Io">>))
               ELSE Respond("read_via_stream", d, [offset |-> offset],
                            <<record, PCall("read_via_stream", fd, [offset |-> offset], r)>>,
                            map_err(r))
            /\ UNCHANGED tables

Tracing_read_via_stream(d, offset, r) ==
    LET fd == descriptors[d].fd
    IN  /\ Respond("read_via_stream", d, [offset |-> offset],
                   <<trace("CALL wasi:filesystem/types#descriptor.read-via-stream FD={self:?} OFFSET={offset}",
                          [self |-> descriptors[d], offset |-> offset]),
                    PCall("read_via_stream", fd,
                          [offset |-> offset],
                          r)>>,
                   map_err(r))
        /\ UNCHANGED tables

Tracing_write_via_stream(d, offset, r) ==
    LET fd == descriptors[d].fd
    IN  /\ Respond("write_via_stream", d, [offset |-> offset],
                   <<trace("CALL wasi:filesystem/types#descriptor.write-via-stream FD={self:?} OFFSET={offset}",
                          [self |-> descriptors[d], offset |-> offset]),
                    PCall("write_via_stream", fd,
                          [offset |-> offset],
                          r)>>,
                   map_err(r))
        /\ UNCHANGED tables

Tracing_append_via_stream(d, r) ==
    LET fd == descriptors[d].fd
    IN  /\ Respond("append_via_stream", d, NoArgs,
                   <<trace("CALL wasi:filesystem/types#descriptor.append-via-stream FD={self:?}",
                          [self |-> descriptors[d]]),
                    PCall("append_via_stream", fd,
                          NoArgs,
                          r)>>,
                   map_err(r))
        /\ UNCHANGED tables

Tracing_advise(d, offset, length, advice, r) ==
    LET fd == descriptors[d].fd
    IN  /\ Respond("advise", d, [offset |-> offset, length |-> length, advice |-> advice],
                   <<trace("CALL wasi:filesystem/types#descriptor.advise FD={self:?}",
                          [self |-> descriptors[d]]),
                    PCall("advise", fd,
                          [offset |-> offset, length |-> length, advice |-> advice_map_in(advice)],
                          r)>>,
                   map_err(r))
        /\ UNCHANGED tables

\* sync_data that reports success whatever the provider answers.
Mut_Tracing_sync_data(d, r) ==
    /\ Respond("sync_data", d, NoArgs,
               <<trace("CALL wasi:filesystem/types#descriptor.sync-data FD={self:?}",
                       [self |-> descriptors[d]]),
                 PCall("sync_data", descriptors[d].fd, NoArgs, r)>>,
               Ok(Unit))
    /\ UNCHANGED tables

Tracing_sync_data(d, r) ==
    LET fd == descriptors[d].fd
    IN  /\ Respond("sync_data", d, NoArgs,
                   <<trace("CALL wasi:filesystem/types#descriptor.sync-data FD={self:?}",
                          [self |-> descriptors[d]]),
                    PCall("sync_data", fd,
                          NoArgs,
                          r)>>,
                   map_err(r))
        /\ UNCHANGED tables

Tracing_get_flags(d, r) ==
    LET fd == descriptors[d].fd
    IN  /\ Respond("get_flags", d, NoArgs,
                   <<trace("CALL wasi:filesystem/types#descriptor.get-flags FD={self:?}",
                          [self |-> descriptors[d]]),
                    PCall("get_flags", fd,
                          NoArgs,
                          r)>>,
                   map_err(map(r, LAMBDA v : [flags |-> descriptor_flags_map(v.flags)])))
        /\ UNCHANGED tables

Tracing_get_type(d, r) ==
    LET fd == descriptors[d].fd
    IN  /\ Respond("get_type", d, NoArgs,
                   <<trace("CALL wasi:filesystem/types#descriptor.get-type FD={self:?}",
                          [self |-> descriptors[d]]),
                    PCall("get_type", fd,
                          NoArgs,
                          r)>>,
                   map_err(map(r, LAMBDA v : [type_ |-> descriptor_type_map(v.type_)])))
        /\ UNCHANGED tables

Tracing_set_size(d, size, r) ==
    LET fd == descriptors[d].fd
    IN  /\ Respond("set_size", d, [size |-> size],
                   <<trace("CALL wasi:filesystem/types#descriptor.set-size FD={self:?}",
                          [self |-> descriptors[d]]),
                    PCall("set_size", fd,
                          [size |-> size],
                          r)>>,
                   map_err(r))
        /\ UNCHANGED tables

Tracing_set_times(d, data_access_timestamp, data_modification_timestamp, r) ==
    LET fd == descriptors[d].fd
    IN  /\ Respond("set_times", d, [data_access_timestamp |-> data_access_timestamp, data_modification_timestamp |-> data_modification_timestamp],
                   <<trace("CALL wasi:filesystem/types#descriptor.set-times FD={self:?}",
                          [self |-> descriptors[d]]),
                    PCall("set_times", fd,
                          [data_access_timestamp |-> new_timestamp_map_in(data_access_timestamp),
                      data_modification_timestamp |-> new_timestamp_map_in(data_modification_timestamp)],
                          r)>>,
                   map_err(r))
        /\ UNCHANGED tables

Tracing_read(d, length, offset, r) ==
    LET fd == descriptors[d].fd
    IN  /\ Respond("read", d, [length |-> length, offset |-> offset],
                   <<trace("CALL wasi:filesystem/types#descriptor.read FD={self:?}",
                          [self |-> descriptors[d]]),
                    PCall("read", fd,
                          [length |-> length, offset |-> offset],
                          r)>>,
                   map_err(r))
        /\ UNCHANGED tables

\* write that always writes at the start of the file.
Mut_Tracing_write(d, buffer, offset, r) ==
    LET fd == descriptors[d].fd
    IN  /\ Respond("write", d, [buffer |-> buffer, offset |-> offset],
                   <<trace("CALL wasi:filesystem/types#descriptor.write FD={self:?}",
                          [self |-> descriptors[d]]),
                    PCall("write", fd, [buffer |-> buffer, offset |-> 0], r)>>,
                   map_err(r))
        /\ UNCHANGED tables

Tracing_write(d, buffer, offset, r) ==
    LET fd == descriptors[d].fd
    IN  /\ Respond("write", d, [buffer |-> buffer, offset |-> offset],
                   <<trace("CALL wasi:filesystem/types#descriptor.write FD={self:?}",
                          [self |-> descriptors[d]]),
                    PCall("write", fd,
                          [buffer |-> buffer, offset |-> offset],
                          r)>>,
                   map_err(r))
        /\ UNCHANGED tables

Tracing_read_directory(d, r) ==
    LET fd == descriptors[d].fd
        des == Len(provStreams) + 1
    IN  /\ IF r.ok
           THEN /\ Respond("read_directory", d, NoArgs,
                           <<trace("CALL wasi:filesystem/types#descriptor.read-directory FD={self:?}",
                          [self |-> descriptors[d]]),
                    PCall("read_directory", fd, NoArgs, Ok([des |-> des]))>>,
                           Ok([directory_entry_stream |-> Len(streams) + 1]))
                /\ provStreams' = Append(provStreams, [fd |-> fd, pos |-> 0])
                /\ streams' = Append(streams, Tracing_directory_entry_stream_map(des))
                /\ UNCHANGED << provFds, descriptors >>
           ELSE /\ Respond("read_directory", d, NoArgs,
                           <<trace("CALL wasi:filesystem/types#descriptor.read-directory FD={self:?}",
                          [self |-> descriptors[d]]),
                    PCall("read_directory", fd, NoArgs, r)>>,
                           map_err(r))
                /\ UNCHANGED tables

\* sync that emits its record after the provider has answered.
Mut_Tracing_sync(d, r) ==
    LET fd == descriptors[d].fd
    IN  /\ Respond("sync", d, NoArgs,
                   <<PCall("sync", fd, NoArgs, r),
                     trace("CALL wasi:filesystem/types#descriptor.sync FD={self:?}",
                           [self |-> descriptors[d]])>>,
                   map_err(r))
        /\ UNCHANGED tables

Tracing_sync(d, r) ==
    LET fd == descriptors[d].fd
    IN  /\ Respond("sync", d, NoArgs,
                   <<trace("CALL wasi:filesystem/types#descriptor.sync FD={self:?}",
                          [self |-> descriptors[d]]),
                    PCall("sync", fd,
                          NoArgs,
                          r)>>,
                   map_err(r))
        /\ UNCHANGED tables

Tracing_create_directory_at(d, path, r) ==
    LET fd == descriptors[d].fd
    IN  /\ Respond("create_directory_at", d, [path |-> path],
                   <<trace("CALL wasi:filesystem/types#descriptor.create-directory-at FD={self:?} PATH={path}",
                          [self |-> descriptors[d], path |-> path]),
                    PCall("create_directory_at", fd,
                          [path |-> path],
                          r)>>,
                   map_err(r))
        /\ UNCHANGED tables

Tracing_stat(d, r) ==
    LET fd == descriptors[d].fd
    IN  /\ Respond("stat", d, NoArgs,
                   <<trace("CALL wasi:filesystem/types#descriptor.stat FD={self:?}",
                          [self |-> descriptors[d]]),
                    PCall("stat", fd,
                          NoArgs,
                          r)>>,
                   map_err(map(r, LAMBDA v : [stat |-> descriptor_stat_map(v.stat)])))
        /\ UNCHANGED tables

Tracing_stat_at(d, path_flags, path, r) ==
    LET fd == descriptors[d].fd
    IN  /\ Respond("stat_at", d, [path_flags |-> path_flags, path |-> path],
                   <<trace("CALL wasi:filesystem/types#descriptor.stat-at FD={self:?} PATH={path}",
                          [self |-> descriptors[d], path |-> path]),
                    PCall("stat_at", fd,
                          [path_flags |-> path_flags_in(path_flags), path |-> path],
                          r)>>,
                   map_err(map(r, LAMBDA v : [stat |-> descriptor_stat_map(v.stat)])))
        /\ UNCHANGED tables

Tracing_set_times_at(d, path_flags, path, data_access_timestamp, data_modification_timestamp, r) ==
    LET fd == descriptors[d].fd
    IN  /\ Respond("set_times_at", d, [path_flags |-> path_flags, path |-> path, data_access_timestamp |-> data_access_timestamp, data_modification_timestamp |-> data_modification_timestamp],
                   <<trace("CALL wasi:filesystem/types#descriptor.set-times-at FD={self:?} PATH={path}",
                          [self |-> descriptors[d], path |-> path]),
                    PCall("set_times_at", fd,
                          [path_flags |-> path_flags_in(path_flags), path |-> path,
                      data_access_timestamp |-> new_timestamp_map_in(data_access_timestamp),
                      data_modification_timestamp |-> new_timestamp_map_in(data_modification_timestamp)],
                          r)>>,
                   map_err(r))
        /\ UNCHANGED tables

Tracing_link_at(d, old_path_flags, old_path, new_descriptor, new_path, r) ==
    LET fd == descriptors[d].fd
    IN  /\ Respond("link_at", d, [old_path_flags |-> old_path_flags, old_path |-> old_path, new_descriptor |-> new_descriptor, new_path |-> new_path],
                   <<trace("CALL wasi:filesystem/types#descriptor.link-at FD={self:?} PATH={old_path}",
                          [self |-> descriptors[d], old_path |-> old_path]),
                    PCall("link_at", fd,
                          [old_path_flags |-> path_flags_in(old_path_flags), old_path |-> old_path,
                      new_descriptor |-> descriptors[new_descriptor].fd, new_path |-> new_path],
                          r)>>,
                   map_err(r))
        /\ UNCHANGED tables

Tracing_open_at(d, path_flags, path, open_flags, flags, r) ==
    LET args == [path_flags |-> path_flags, path |-> path, open_flags |-> open_flags, flags |-> flags]
        fd == descriptors[d].fd
        pargs == [path_flags |-> path_flags_in(path_flags), path |-> path,
                  open_flags |-> open_flags_in(open_flags), flags |-> descriptor_flags_in(flags)]
        opened == Len(provFds) + 1
    IN  IF r.ok
        THEN /\ Respond("open_at", d, args,
                        <<trace("CALL wasi:filesystem/types#descriptor.open-at FD={self:?} PATH={path}",
                     [self |-> descriptors[d], path |-> path]),
               PCall("open_at", fd, pargs, Ok([fd |-> opened]))>>,
                        Ok([descriptor |-> Len(descriptors) + 1]))
             /\ provFds' = Append(provFds, ProvOpened(fd, path))
             /\ descriptors' = Append(descriptors, Tracing_descriptor_map(opened))
             /\ UNCHANGED << streams, provStreams >>
        ELSE /\ Respond("open_at", d, args,
                        <<trace("CALL wasi:filesystem/types#descriptor.open-at FD={self:?} PATH={path}",
                     [self |-> descriptors[d], path |-> path]),
               PCall("open_at", fd, pargs, r)>>,
                        map_err(r))
             /\ UNCHANGED tables

Tracing_readlink_at(d, path, r) ==
    LET fd == descriptors[d].fd
    IN  /\ Respond("readlink_at", d, [path |-> path],
                   <<trace("CALL wasi:filesystem/types#descriptor.readlink-at FD={self:?} PATH={path}",
                          [self |-> descriptors[d], path |-> path]),
                    PCall("readlink_at", fd,
                          [path |-> path],
                          r)>>,
                   map_err(r))
        /\ UNCHANGED tables

Tracing_remove_directory_at(d, path, r) ==
    LET fd == descriptors[d].fd
    IN  /\ Respond("remove_directory_at", d, [path |-> path],
                   <<trace("CALL wasi:filesystem/types#descriptor.remove-directory-at FD={self:?} PATH={path}",
                          [self |-> descriptors[d], path |-> path]),
                    PCall("remove_directory_at", fd,
                          [path |-> path],
                          r)>>,
                   map_err(r))
        /\ UNCHANGED tables

Tracing_rename_at(d, old_path, new_descriptor, new_path, r) ==
    LET fd == descriptors[d].fd
    IN  /\ Respond("rename_at", d, [old_path |-> old_path, new_descriptor |-> new_descriptor, new_path |-> new_path],
                   <<trace("CALL wasi:filesystem/types#descriptor.rename-at FD={self:?} PATH={old_path}",
                          [self |-> descriptors[d], old_path |-> old_path]),
                    PCall("rename_at", fd,
                          [old_path |-> old_path, new_descriptor |-> descriptors[new_descriptor].fd,
                      new_path |-> new_path],
                          r)>>,
                   map_err(r))
        /\ UNCHANGED tables

Tracing_symlink_at(d, old_path, new_path, r) ==
    LET fd == descriptors[d].fd
    IN  /\ Respond("symlink_at", d, [old_path |-> old_path, new_path |-> new_path],
                   <<trace("CALL wasi:filesystem/types#descriptor.symlink-at FD={self:?} PATH={old_path}",
                          [self |-> descriptors[d], old_path |-> old_path]),
                    PCall("symlink_at", fd,
                          [old_path |-> old_path, new_path |-> new_path],
                          r)>>,
                   map_err(r))
        /\ UNCHANGED tables

Tracing_unlink_file_at(d, path, r) ==
    LET fd == descriptors[d].fd
    IN  /\ Respond("unlink_file_at", d, [path |-> path],
                   <<trace("CALL wasi:filesystem/types#descriptor.unlink-file-at FD={self:?} PATH={path}",
                          [self |-> descriptors[d], path |-> path]),
                    PCall("unlink_file_at", fd,
                          [path |-> path],
                          r)>>,
                   map_err(r))
        /\ UNCHANGED tables

Tracing_is_same_object(d, other, r) ==
    LET fd == descriptors[d].fd
    IN  /\ Respond("is_same_object", d, [other |-> other],
                   <<trace("CALL wasi:filesystem/types#descriptor.is-same-object FD1={self:?} FD2={other:?}",
                          [self |-> descriptors[d], other |-> descriptors[other]]),
                    PCall("is_same_object", fd,
                          [other |-> descriptors[other].fd],
                          r)>>,
                   r)
        /\ UNCHANGED tables

Tracing_metadata_hash(d, r) ==
    LET fd == descriptors[d].fd
    IN  /\ Respond("metadata_hash", d, NoArgs,
                   <<trace("CALL wasi:filesystem/types#descriptor.metadata-hash FD={self:?}",
                          [self |-> descriptors[d]]),
                    PCall("metadata_hash", fd,
                          NoArgs,
                          r)>>,
                   map_err(map(r, LAMBDA v : [hash |-> metadata_hash_value_map(v.hash)])))
        /\ UNCHANGED tables

Tracing_metadata_hash_at(d, path_flags, path, r) ==
    LET fd == descriptors[d].fd
    IN  /\ Respond("metadata_hash_at", d, [path_flags |-> path_flags, path |-> path],
                   <<trace("CALL wasi:filesystem/types#descriptor.metadata-hash-at FD={self:?} PATH={path}",
                          [self |-> descriptors[d], path |-> path]),
                    PCall("metadata_hash_at", fd,
                          [path_flags |-> path_flags_in(path_flags), path |-> path],
                          r)>>,
                   map_err(map(r, LAMBDA v : [hash |-> metadata_hash_value_map(v.hash)])))
        /\ UNCHANGED tables

Tracing_read_directory_entry(s, r) ==
    LET des == streams[s].des
        answer == IF r.ok THEN Ok([directory_entry |-> ProvNextEntry(des)]) ELSE r
    IN  /\ Respond("read_directory_entry", s, NoArgs,
                   <<trace("CALL wasi:filesystem/types#read-directory-entry SID={self:?}",
                    [self |-> streams[s]]),
                    PCall("read_directory_entry", des, NoArgs, answer)>>,
                   map_err(map(answer, LAMBDA v : [directory_entry |-> option_map_entry(v.directory_entry)])))
        /\ provStreams' = IF r.ok THEN ProvAdvance(des) ELSE provStreams
        /\ UNCHANGED << provFds, descriptors, streams >>

NextTracing ==
    \/ Resume
    \/ Ready("tracing") /\ Tracing_get_directories
    \/ Ready("tracing") /\ \E err \in IoErrors,
              r \in ErrorCodeOutcomes :
            Tracing_filesystem_error_code(err, r)
    \/ Ready("tracing") /\ \E d \in DOMAIN descriptors,
              offset \in Filesizes :
            \E r \in IoStreamOutcomes(descriptors[d].fd) : Tracing_read_via_stream(d, offset, r)
    \/ Ready("tracing") /\ \E d \in DOMAIN descriptors,
              offset \in Filesizes :
            \E r \in IoStreamOutcomes(descriptors[d].fd) : Tracing_write_via_stream(d, offset, r)
    \/ Ready("tracing") /\ \E d \in DOMAIN descriptors :
            \E r \in IoStreamOutcomes(descriptors[d].fd) : Tracing_append_via_stream(d, r)
    \/ Ready("tracing") /\ \E d \in DOMAIN descriptors,
              offset \in Filesizes,
              length \in Lengths,
              advice \in Advices,
              r \in UnitOutcomes :
            Tracing_advise(d, offset, length, advice, r)
    \/ Ready("tracing") /\ \E d \in DOMAIN descriptors,
              r \in UnitOutcomes :
            Tracing_sync_data(d, r)
    \/ Ready("tracing") /\ \E d \in DOMAIN descriptors,
              r \in FlagsOutcomes :
            Tracing_get_flags(d, r)
    \/ Ready("tracing") /\ \E d \in DOMAIN descriptors,
              r \in TypeOutcomes :
            Tracing_get_type(d, r)
    \/ Ready("tracing") /\ \E d \in DOMAIN descriptors,
              size \in Filesizes,
              r \in UnitOutcomes :
            Tracing_set_size(d, size, r)
    \/ Ready("tracing") /\ \E d \in DOMAIN descriptors,
              data_access_timestamp \in NewTimestamps,
              data_modification_timestamp \in NewTimestamps,
              r \in UnitOutcomes :
            Tracing_set_times(d, data_access_timestamp, data_modification_timestamp, r)
    \/ Ready("tracing") /\ \E d \in DOMAIN descriptors,
              length \in Lengths,
              offset \in Filesizes,
              r \in ReadOutcomes :
            Tracing_read(d, length, offset, r)
    \/ Ready("tracing") /\ \E d \in DOMAIN descriptors,
              buffer \in Buffers,
              offset \in Filesizes,
              r \in WriteOutcomes :
            Tracing_write(d, buffer, offset, r)
    \/ Ready("tracing") /\ \E d \in DOMAIN descriptors,
              r \in HandleOutcomes :
            Tracing_read_directory(d, r)
    \/ Ready("tracing") /\ \E d \in DOMAIN descriptors, r \in UnitOutcomes : Tracing_sync(d, r)
    \/ Ready("tracing") /\ \E d \in DOMAIN descriptors,
              path \in GuestPaths,
              r \in UnitOutcomes :
            Tracing_create_directory_at(d, path, r)
    \/ Ready("tracing") /\ \E d \in DOMAIN descriptors, r \in StatOutcomes : Tracing_stat(d, r)
    \/ Ready("tracing") /\ \E d \in DOMAIN descriptors,
              path_flags \in SUBSET PathFlagBits,
              path \in GuestPaths,
              r \in StatOutcomes :
            Tracing_stat_at(d, path_flags, path, r)
    \/ Ready("tracing") /\ \E d \in DOMAIN descriptors,
              path_flags \in SUBSET PathFlagBits,
              path \in GuestPaths,
              data_access_timestamp \in NewTimestamps,
              data_modification_timestamp \in NewTimestamps,
              r \in UnitOutcomes :
            Tracing_set_times_at(d, path_flags, path, data_access_timestamp, data_modification_timestamp, r)
    \/ Ready("tracing") /\ \E d \in DOMAIN descriptors,
              old_path_flags \in SUBSET PathFlagBits,
              old_path \in GuestPaths,
              new_descriptor \in DOMAIN descriptors,
              new_path \in GuestNewPaths,
              r \in UnitOutcomes :
            Tracing_link_at(d, old_path_flags, old_path, new_descriptor, new_path, r)
    \/ Ready("tracing") /\ \E d \in DOMAIN descriptors,
              path_flags \in SUBSET PathFlagBits,
              path \in GuestPaths,
              open_flags \in OpenFlagChoices,
              flags \in DescriptorFlagChoices,
              r \in HandleOutcomes :
            Tracing_open_at(d, path_flags, path, open_flags, flags, r)
    \/ Ready("tracing") /\ \E d \in DOMAIN descriptors,
              path \in GuestPaths,
              r \in StringOutcomes :
            Tracing_readlink_at(d, path, r)
    \/ Ready("tracing") /\ \E d \in DOMAIN descriptors,
              path \in GuestPaths,
              r \in UnitOutcomes :
            Tracing_remove_directory_at(d, path, r)
    \/ Ready("tracing") /\ \E d \in DOMAIN descriptors,
              old_path \in GuestPaths,
              new_descriptor \in DOMAIN descriptors,
              new_path \in GuestNewPaths,
              r \in UnitOutcomes :
            Tracing_rename_at(d, old_path, new_descriptor, new_path, r)
    \/ Ready("tracing") /\ \E d \in DOMAIN descriptors,
              old_path \in GuestPaths,
              new_path \in GuestNewPaths,
              r \in UnitOutcomes :
            Tracing_symlink_at(d, old_path, new_path, r)
    \/ Ready("tracing") /\ \E d \in DOMAIN descriptors,
              path \in GuestPaths,
              r \in UnitOutcomes :
            Tracing_unlink_file_at(d, path, r)
    \/ Ready("tracing") /\ \E d \in DOMAIN descriptors,
              other \in DOMAIN descriptors,
              r \in BoolOutcomes :
            Tracing_is_same_object(d, other, r)
    \/ Ready("tracing") /\ \E d \in DOMAIN descriptors,
              r \in HashOutcomes :
            Tracing_metadata_hash(d, r)
    \/ Ready("tracing") /\ \E d \in DOMAIN descriptors,
              path_flags \in SUBSET PathFlagBits,
              path \in GuestPaths,
              r \in HashOutcomes :
            Tracing_metadata_hash_at(d, path_flags, path, r)
    \/ Ready("tracing") /\ \E s \in DOMAIN streams,
              r \in HandleOutcomes :
            Tracing_read_directory_entry(s, r)

InitTracing == InitFor("tracing")

SpecTracing == InitTracing /\ [][NextTracing]_vars

(***************************************************************************)
(* The three components together: one of them is deployed.                 *)
(***************************************************************************)
Components == { "chroot", "readonly", "tracing" }

Init == \E c \in Components : InitFor(c)

Next == NextChroot \/ NextReadOnly \/ NextTracing

Spec == Init /\ [][Next]_vars

(***************************************************************************)
(* The mapper on its own: a component applies one of its mapping functions *)
(* to a value of the provider (error code, descriptor type, descriptor     *)
(* flags) or of the guest (open flags, path flags, descriptor flags).      *)
(***************************************************************************)
Applied(f, argument, value) ==
    /\ Respond(f, 0, argument, <<>>, value)
    /\ UNCHANGED tables

NextMapper ==
    \/ Resume
    \/ Ready(component) /\ \E e \in ProviderErrorCodes :
            Applied("error_code_map", [error_code |-> e], [error_code |-> error_code_map(e)])
    \/ Ready(component) /\ \E t \in ProviderDescriptorTypes :
            Applied("descriptor_type_map", [descriptor_type |-> t],
                    [descriptor_type |-> descriptor_type_map(t)])
    \/ Ready(component) /\ \E f \in SUBSET DescriptorFlagBits :
            Applied("descriptor_flags_map", [descriptor_flags |-> f],
                    [descriptor_flags |-> descriptor_flags_map(f)])
    \/ Ready(component) /\ \E f \in SUBSET DescriptorFlagBits :
            Applied("descriptor_flags_in", [descriptor_flags |-> f],
                    [descriptor_flags |-> descriptor_flags_in(f)])
    \/ Ready(component) /\ \E f \in SUBSET OpenFlagBits :
            Applied("open_flags_in", [open_flags |-> f], [open_flags |-> open_flags_in(f)])
    \/ Ready(component) /\ \E f \in SUBSET PathFlagBits :
            Applied("path_flags_in", [path_flags |-> f], [path_flags |-> path_flags_in(f)])

InitMapper == \E c \in Components : InitFor(c)

SpecMapper == InitMapper /\ [][NextMapper]_vars

(***************************************************************************)
(* A recorded session: the guest's calls and the provider calls they       *)
(* cause are kept, in order, in `history`.  The session consists of        *)
(* get_directories and of sync_data, read, write and open_at (without a    *)
(* flag the readonly component refuses) on the descriptors the guest       *)
(* holds.                                                                  *)
(***************************************************************************)
NextOrdering ==
    \/ Resume
    \/ Ready("chroot") /\ \E r \in HandleOutcomes : Chroot_get_directories(r)
    \/ Ready("chroot") /\ \E d \in DOMAIN descriptors, r \in UnitOutcomes :
            Chroot_sync_data(d, r)
    \/ Ready("chroot") /\ \E d \in DOMAIN descriptors, r \in ReadOutcomes :
            Chroot_read(d, 1, 0, r)
    \/ Ready("chroot") /\ \E d \in DOMAIN descriptors, r \in WriteOutcomes :
            Chroot_write(d, <<7>>, 0, r)
    \/ Ready("chroot") /\ \E d \in DOMAIN descriptors, r \in HandleOutcomes :
            Chroot_open_at(d, {}, P_a_b, {}, {"READ"}, r)
    \/ Ready("readonly") /\ ReadOnly_get_directories
    \/ Ready("readonly") /\ \E d \in DOMAIN descriptors : ReadOnly_sync_data(d)
    \/ Ready("readonly") /\ \E d \in DOMAIN descriptors, r \in ReadOutcomes :
            ReadOnly_read(d, 1, 0, r)
    \/ Ready("readonly") /\ \E d \in DOMAIN descriptors : ReadOnly_write(d, <<7>>, 0)
    \/ Ready("readonly") /\ \E d \in DOMAIN descriptors, r \in HandleOutcomes :
            ReadOnly_open_at(d, {}, P_a_b, {}, {"READ"}, r)
    \/ Ready("tracing") /\ Tracing_get_directories
    \/ Ready("tracing") /\ \E d \in DOMAIN descriptors, r \in UnitOutcomes :
            Tracing_sync_data(d, r)
    \/ Ready("tracing") /\ \E d \in DOMAIN descriptors, r \in ReadOutcomes :
            Tracing_read(d, 1, 0, r)
    \/ Ready("tracing") /\ \E d \in DOMAIN descriptors, r \in WriteOutcomes :
            Tracing_write(d, <<7>>, 0, r)
    \/ Ready("tracing") /\ \E d \in DOMAIN descriptors, r \in HandleOutcomes :
            Tracing_open_at(d, {}, P_a_b, {}, {"READ"}, r)

InitOrdering == \E c \in Components : InitRecording(c, TRUE)

SpecOrdering == InitOrdering /\ [][NextOrdering]_vars

(***************************************************************************)
(* A session of directory streams: get_directories, read_directory on the  *)
(* descriptors and read_directory_entry on the streams the guest holds.    *)
(***************************************************************************)
Reading(c) ==
    /\ component = c
    /\ ~aborted
    /\ Idle
    /\ nCalls < MaxStreamCalls

NextStreams ==
    \/ Resume
    \/ Reading("chroot") /\ \E r \in HandleOutcomes : Chroot_get_directories(r)
    \/ Reading("chroot") /\ \E d \in DOMAIN descriptors, r \in HandleOutcomes :
            Chroot_read_directory(d, r)
    \/ Reading("chroot") /\ \E s \in DOMAIN streams, r \in HandleOutcomes :
            Chroot_read_directory_entry(s, r)
    \/ Reading("readonly") /\ ReadOnly_get_directories
    \/ Reading("readonly") /\ \E d \in DOMAIN descriptors, r \in HandleOutcomes :
            ReadOnly_read_directory(d, r)
    \/ Reading("readonly") /\ \E s \in DOMAIN streams, r \in HandleOutcomes :
            ReadOnly_read_directory_entry(s, r)
    \/ Reading("tracing") /\ Tracing_get_directories
    \/ Reading("tracing") /\ \E d \in DOMAIN descriptors, r \in HandleOutcomes :
            Tracing_read_directory(d, r)
    \/ Reading("tracing") /\ \E s \in DOMAIN streams, r \in HandleOutcomes :
            Tracing_read_directory_entry(s, r)

InitStreams == \E c \in Components : InitFor(c)

SpecStreams == InitStreams /\ [][NextStreams]_vars

(***************************************************************************)
(* A session in which the guest drops what it holds: get_directories,      *)
(* open_at and read_directory on live descriptors, and the drop of a       *)
(* descriptor or of a stream.                                              *)
(***************************************************************************)
NextOwnership ==
    \/ Resume
    \/ Ready("chroot") /\ \E r \in HandleOutcomes : Chroot_get_directories(r)
    \/ Ready("chroot") /\ \E d \in LiveDescriptors, r \in HandleOutcomes :
            Chroot_open_at(d, {}, P_a_b, {}, {"READ"}, r)
    \/ Ready("chroot") /\ \E d \in LiveDescriptors, r \in HandleOutcomes :
            Chroot_read_directory(d, r)
    \/ Ready("readonly") /\ ReadOnly_get_directories
    \/ Ready("readonly") /\ \E d \in LiveDescriptors, r \in HandleOutcomes :
            ReadOnly_open_at(d, {}, P_a_b, {}, {"READ"}, r)
    \/ Ready("readonly") /\ \E d \in LiveDescriptors, r \in HandleOutcomes :
            ReadOnly_read_directory(d, r)
    \/ Ready("tracing") /\ Tracing_get_directories
    \/ Ready("tracing") /\ \E d \in LiveDescriptors, r \in HandleOutcomes :
            Tracing_open_at(d, {}, P_a_b, {}, {"READ"}, r)
    \/ Ready("tracing") /\ \E d \in LiveDescriptors, r \in HandleOutcomes :
            Tracing_read_directory(d, r)
    \/ (\E c \in Components : Ready(c)) /\ \E d \in LiveDescriptors : Descriptor_drop(d)
    \/ (\E c \in Components : Ready(c)) /\ \E s \in LiveStreams : DirectoryEntryStream_drop(s)

InitOwnership == \E c \in Components : InitFor(c)

SpecOwnership == InitOwnership /\ [][NextOwnership]_vars

(***************************************************************************)
(* The chroot component under a configuration store whose value for "path" *)
(* the host may change between two calls of the guest.                     *)
(***************************************************************************)
\* The host stores another value.
ConfigChanges ==
    /\ component = "chroot"
    /\ Idle
    /\ ~aborted
    /\ \E value \in ConfigValues \ {config} : config' = value
    /\ UNCHANGED << component, provPreopens, tables, nCalls, call, result, events,
                    aborted, sink, recording, history, dropped, released >>

NextConfig ==
    \/ Resume
    \/ ConfigChanges
    \/ Ready("chroot") /\ \E r \in HandleOutcomes : Chroot_get_directories(r)
    \/ Ready("chroot") /\ \E d \in DOMAIN descriptors, path \in GuestPaths, r \in HandleOutcomes :
            Chroot_open_at(d, {}, path, {}, {"READ"}, r)
    \/ Ready("chroot") /\ \E d \in DOMAIN descriptors, r \in StatOutcomes :
            Chroot_stat(d, r)

InitConfig == InitFor("chroot")

SpecConfig == InitConfig /\ [][NextConfig]_vars

(***************************************************************************)
(* A recorded session of the readonly component, arguments included:       *)
(* get_directories, read, write, and open_at with and without the flags    *)
(* it refuses, on any descriptor, path and path flags.                     *)
(***************************************************************************)
DecisionOpenFlags == { {}, {"CREATE"}, {"DIRECTORY"} }

DecisionDescriptorFlags == { {"READ"}, {"READ", "WRITE"} }

NextDecisions ==
    \/ Resume
    \/ Ready("readonly") /\ ReadOnly_get_directories
    \/ Ready("readonly") /\ \E d \in DOMAIN descriptors, r \in ReadOutcomes :
            ReadOnly_read(d, 1, 0, r)
    \/ Ready("readonly") /\ \E d \in DOMAIN descriptors : ReadOnly_write(d, <<7>>, 0)
    \/ Ready("readonly") /\ \E d \in DOMAIN descriptors,
              path_flags \in SUBSET PathFlagBits,
              path \in { P_a_b, P_up },
              open_flags \in DecisionOpenFlags,
              flags \in DecisionDescriptorFlags,
              r \in HandleOutcomes :
            ReadOnly_open_at(d, path_flags, path, open_flags, flags, r)

InitDecisions == InitRecording("readonly", TRUE)

SpecDecisions == InitDecisions /\ [][NextDecisions]_vars

(***************************************************************************)
(* prefix_path on its own: the chroot component applies it to any path of  *)
(* at most MaxPathLen characters, under each configuration.                *)
(***************************************************************************)
PathChars == { SEP, "a", "." }

RECURSIVE PathsOfLength(_)
PathsOfLength(n) ==
    IF n = 0 THEN { <<>> }
    ELSE { Append(p, c) : p \in PathsOfLength(n - 1), c \in PathChars }

PrefixInputs == UNION { PathsOfLength(n) : n \in 0..MaxPathLen }

\* fn prefix_path(path), the configuration lookup included.
Chroot_prefix_path(path) ==
    IF Chroot_config_resolves
    THEN /\ Respond("prefix_path", 0, [path |-> path], <<ConfigGet("path")>>,
                    [path |-> prefix_path(config.value, path)])
         /\ UNCHANGED tables
    ELSE /\ Chroot_panic("prefix_path", <<ConfigGet("path")>>,
                         IF config.state = "error" THEN "Config must resolve"
                         ELSE "Config must contain 'path'")
         /\ provFds' = provFds

NextPrefix ==
    \/ Resume
    \/ Ready("chroot") /\ \E path \in PrefixInputs : Chroot_prefix_path(path)

InitPrefix == InitFor("chroot")

SpecPrefix == InitPrefix /\ [][NextPrefix]_vars

(***************************************************************************)
(* Properties.                                                             *)
(***************************************************************************)
\* The paths among the arguments of a provider call.
PathArgs(e) ==
    { e.args[f] : f \in DOMAIN e.args \cap {"path", "old_path", "new_path"} }

\* Whether some segment of path p is "..".
HasParentSegment(p) ==
    \E i \in 1..(Len(p) - 1) :
        /\ p[i] = "." /\ p[i + 1] = "."
        /\ (i = 1 \/ p[i - 1] = SEP)
        /\ (i + 1 = Len(p) \/ p[i + 2] = SEP)

\* The operations the read-only guard is documented to deny.
ReadOnlyDenyList ==
    { "write_via_stream", "append_via_stream", "sync_data", "set_size", "set_times",
      "create_directory_at", "set_times_at", "link_at", "remove_directory_at",
      "rename_at", "symlink_at", "unlink_file_at" }

OpenAtForbidden(open_flags, flags) ==
    \/ open_flags \cap {"CREATE", "EXCLUSIVE", "TRUNCATE"} # {}
    \/ flags \cap {"WRITE", "MUTATE_DIRECTORY", "FILE_INTEGRITY_SYNC",
                   "DATA_INTEGRITY_SYNC", "REQUESTED_WRITE_SYNC"} # {}

\* C2: open_at of the readonly component returns ErrorCode::ReadOnly without
\* a provider call whenever the open flags contain create, exclusive or
\* truncate, or the descriptor flags contain write, mutate-directory, either
\* integrity sync or requested-write-sync.
C2_OpenAtGating ==
    ( /\ component = "readonly"
      /\ call.op = "open_at"
      /\ OpenAtForbidden(call.args.open_flags, call.args.flags) )
        => /\ IsErr(result, "ReadOnly")
           /\ events = <<>>

\* C3: open_at of the readonly component with none of the forbidden flags
\* makes exactly one provider open_at with the guest's arguments, a
\* descriptor the provider returns reaches the guest wrapped as a
\* ReadOnlyDescriptor, every descriptor the guest holds is such a wrapper, and
\* a write attempt or any other denied operation on any of them returns
\* ErrorCode::ReadOnly.
C3_ReadOnlyTransitive ==
    component = "readonly" =>
        /\ \A g \in DOMAIN descriptors : descriptors[g].wrapper = "ReadOnlyDescriptor"
        /\ ( /\ call.op = "open_at"
             /\ ~OpenAtForbidden(call.args.open_flags, call.args.flags) )
              => LET pc == ProviderCalls(events)
                 IN  /\ Len(pc) = 1
                     /\ pc[1].op = "open_at"
                     /\ pc[1].fd = descriptors[call.self].fd
                     /\ pc[1].args = call.args
                     /\ result.ok = pc[1].result.ok
                     /\ pc[1].result.ok =>
                            descriptors[result.v.descriptor] =
                                [wrapper |-> "ReadOnlyDescriptor", fd |-> pc[1].result.v.fd]
        /\ call.op \in ReadOnlyDenyList \cup {"write"} => IsErr(result, "ReadOnly")

\* A write attempt has been refused on a descriptor obtained from open_at.
C3_Witness ==
    /\ component = "readonly"
    /\ call.op = "write_via_stream"
    /\ provFds[descriptors[call.self].fd].origin = "open_at"
    /\ descriptors[call.self].wrapper = "ReadOnlyDescriptor"
    /\ IsErr(result, "ReadOnly")

\* C4: whatever flags the provider answers, the flags get_flags of the
\* readonly component returns contain none of write, mutate-directory,
\* file-integrity-sync and data-integrity-sync.
C4_ReadOnlyFlagStripping ==
    (component = "readonly" /\ call.op = "get_flags" /\ result.ok)
        => result.v.flags \cap {"WRITE", "MUTATE_DIRECTORY", "FILE_INTEGRITY_SYNC",
                                "DATA_INTEGRITY_SYNC"} = {}

\* The provider has answered get_flags with every bit set.
C4_Witness ==
    /\ component = "readonly"
    /\ call.op = "get_flags"
    /\ ProviderCalls(events)[1].result = Ok([flags |-> DescriptorFlagBits])
    /\ result.ok

\* Provider handle f descends, by open_at, from a handle that was opened on a
\* preopened directory at a path beneath the configured root.
RECURSIVE Confined(_)
Confined(f) ==
    /\ provFds[f].origin = "open_at"
    /\ IF provFds[provFds[f].parent].origin = "preopen"
       THEN StartsWith(provFds[f].path, config.value)
       ELSE Confined(provFds[f].parent)

\* C5: with the root configured as "/sandbox", open_at("etc/passwd") on an
\* exported descriptor makes one provider open_at of "etc/passwd" on a handle
\* that descends from the directory opened beneath "/sandbox", never on a
\* preopened directory of the provider.
C5_ConfinementContainment ==
    ( /\ component = "chroot"
      /\ config = ConfigSome(P_sandbox)
      /\ call.op = "open_at"
      /\ call.args.path = P_etc_passwd )
        => LET pc == ProviderCalls(events)
           IN  /\ Len(pc) = 1
               /\ pc[1].op = "open_at"
               /\ pc[1].args.path = P_etc_passwd
               /\ Confined(pc[1].fd)

\* "etc/passwd" has been opened through the exported root.
C5_Witness ==
    /\ component = "chroot"
    /\ config = ConfigSome(P_sandbox)
    /\ call.op = "open_at"
    /\ call.args.path = P_etc_passwd
    /\ provFds[provFds[descriptors[call.self].fd].parent].origin = "preopen"
    /\ result.ok

\* C6: no provider call of the chroot component, at startup or for a guest
\* call, carries a path with a ".." segment.
C6_TraversalRejected ==
    component = "chroot" =>
        \A i \in DOMAIN events :
            events[i].kind = "provider" =>
                \A p \in PathArgs(events[i]) : ~HasParentSegment(p)

\* The path-taking operations of a descriptor.
PathOps ==
    { "open_at", "stat_at", "readlink_at", "metadata_hash_at", "create_directory_at",
      "set_times_at", "link_at", "rename_at", "symlink_at", "unlink_file_at",
      "remove_directory_at" }

\* C7: for a path-taking operation of the chroot component the provider never
\* receives a path that begins with the separator.
C7_AbsoluteIsRootRelative ==
    (component = "chroot" /\ call.op \in PathOps)
        => \A i \in DOMAIN events :
               events[i].kind = "provider" =>
                   \A p \in PathArgs(events[i]) : ~StartsWith(p, <<SEP>>)

\* C8: open_at of the chroot component given "/" followed by p hands the
\* provider the request it hands it for p.
C8_LeadingSlashNormalized ==
    ( /\ component = "chroot"
      /\ call.op = "open_at"
      /\ StartsWith(call.args.path, <<SEP>>)
      /\ ~StartsWith(Tail(call.args.path), <<SEP>>) )
        => ProviderCalls(events)[1].args =
               Chroot_open_at_request(call.args.path_flags, Tail(call.args.path),
                                      call.args.open_flags, call.args.flags)

\* The resource types each component exports.
ExportedDescriptor ==
    [ chroot |-> "FilesystemChrootDescriptor", readonly |-> "ReadOnlyDescriptor",
      tracing |-> "TracingDescriptor" ]

ExportedDirectoryEntryStream ==
    [ chroot |-> "FilesystemChrootDirectoryEntryStream",
      readonly |-> "ReadOnlyDirectoryEntryStream",
      tracing |-> "TracingDirectoryEntryStream" ]

\* C9: in each component every descriptor and every directory stream the
\* guest holds is a wrapper of that component's own type, and what
\* get_directories, open_at and read_directory return names such a wrapper.
C9_NoRawHandle ==
    /\ \A g \in DOMAIN descriptors : descriptors[g].wrapper = ExportedDescriptor[component]
    /\ \A s \in DOMAIN streams : streams[s].wrapper = ExportedDirectoryEntryStream[component]
    /\ (call.op = "open_at" /\ result.ok) =>
           /\ DOMAIN result.v = {"descriptor"}
           /\ result.v.descriptor \in DOMAIN descriptors
    /\ (call.op = "read_directory" /\ result.ok) =>
           /\ DOMAIN result.v = {"directory_entry_stream"}
           /\ result.v.directory_entry_stream \in DOMAIN streams
    /\ (call.op = "get_directories" /\ ~aborted) =>
           \A i \in DOMAIN result.list :
               /\ DOMAIN result.list[i] = {"descriptor", "path"}
               /\ result.list[i].descriptor \in DOMAIN descriptors

\* The tracing component holds a preopened descriptor, a descriptor from
\* open_at and a directory stream.
C9_Witness ==
    /\ component = "tracing"
    /\ \E g \in DOMAIN descriptors : provFds[descriptors[g].fd].origin = "open_at"
    /\ call.op = "read_directory"
    /\ result.ok

\* Exported value gv is provider value pv: field for field, a provider handle
\* being answered by a wrapper of it.
MirrorsValue(pv, gv) ==
    CASE DOMAIN pv = {"type_"} ->
            DOMAIN gv = {"type_"} /\ gv.type_ = <<"DescriptorType", pv.type_[2]>>
      [] DOMAIN pv = {"stat"} ->
            /\ DOMAIN gv = {"stat"}
            /\ gv.stat = [pv.stat EXCEPT !.type_ = <<"DescriptorType", pv.stat.type_[2]>>]
      [] DOMAIN pv = {"fd"} ->
            /\ DOMAIN gv = {"descriptor"}
            /\ gv.descriptor \in DOMAIN descriptors
            /\ descriptors[gv.descriptor].fd = pv.fd
      [] DOMAIN pv = {"des"} ->
            /\ DOMAIN gv = {"directory_entry_stream"}
            /\ gv.directory_entry_stream \in DOMAIN streams
            /\ streams[gv.directory_entry_stream].des = pv.des
      [] DOMAIN pv = {"directory_entry"} ->
            /\ DOMAIN gv = {"directory_entry"}
            /\ gv.directory_entry.some = pv.directory_entry.some
            /\ pv.directory_entry.some =>
                   /\ gv.directory_entry.entry.name = pv.directory_entry.entry.name
                   /\ gv.directory_entry.entry.type_ =
                          <<"DescriptorType", pv.directory_entry.entry.type_[2]>>
      [] OTHER -> gv = pv

\* What the guest got, g, is what the provider answered, p.
Mirrors(p, g) ==
    IF IsResult(p)
    THEN /\ IsResult(g)
         /\ g.ok = p.ok
         /\ IF p.ok THEN MirrorsValue(p.v, g.v)
            ELSE g.v.code = <<"ErrorCode", p.v.code[2]>>
    ELSE IF "some" \in DOMAIN p
    THEN /\ "some" \in DOMAIN g
         /\ g.some = p.some
         /\ p.some => g.code = <<"ErrorCode", p.code[2]>>
    ELSE IF "list" \in DOMAIN p
    THEN /\ DOMAIN g = {"list"}
         /\ Len(g.list) = Len(p.list)
         /\ \A i \in DOMAIN p.list :
                /\ g.list[i].path = p.list[i].path
                /\ descriptors[g.list[i].descriptor].fd = p.list[i].fd
    ELSE g = p

\* The provider handle behind the resource the last call was made on.
Wrapped ==
    IF call.op \in {"get_directories", "filesystem_error_code"} THEN 0
    ELSE IF call.op = "read_directory_entry" THEN streams[call.self].des
    ELSE descriptors[call.self].fd

\* C10: every call of the tracing component makes exactly one provider call,
\* of the same operation on the wrapped handle, and returns what the provider
\* answered, success or error, under the one-to-one type mapping; so the
\* return values of a sequence of calls are, one by one, those of the same
\* calls made on the provider directly.
C10_TracerTransparent ==
    (component = "tracing" /\ ~Idle)
        => LET pc == ProviderCalls(events)
           IN  /\ Len(pc) = 1
               /\ pc[1].op = call.op
               /\ pc[1].fd = Wrapped
               /\ Mirrors(pc[1].result, result)

\* A provider error has passed through the tracing component.
C10_Witness ==
    /\ component = "tracing"
    /\ call.op = "sync_data"
    /\ provFds[descriptors[call.self].fd].origin = "open_at"
    /\ ProviderCalls(events)[1].result = Err(<<"types::ErrorCode", "NoEntry">>)
    /\ result = Err(<<"ErrorCode", "NoEntry">>)

\* The name of every exported function in the interface.
OperationName ==
    [ get_directories |-> "get-directories", filesystem_error_code |-> "filesystem-error-code",
      read_via_stream |-> "read-via-stream", write_via_stream |-> "write-via-stream",
      append_via_stream |-> "append-via-stream", advise |-> "advise", sync_data |-> "sync-data",
      get_flags |-> "get-flags", get_type |-> "get-type", set_size |-> "set-size",
      set_times |-> "set-times", read |-> "read", write |-> "write",
      read_directory |-> "read-directory", sync |-> "sync",
      create_directory_at |-> "create-directory-at", stat |-> "stat", stat_at |-> "stat-at",
      set_times_at |-> "set-times-at", link_at |-> "link-at", open_at |-> "open-at",
      readlink_at |-> "readlink-at", remove_directory_at |-> "remove-directory-at",
      rename_at |-> "rename-at", symlink_at |-> "symlink-at",
      unlink_file_at |-> "unlink-file-at", is_same_object |-> "is-same-object",
      metadata_hash |-> "metadata-hash", metadata_hash_at |-> "metadata-hash-at",
      read_directory_entry |-> "read-directory-entry" ]

\* Message names operation op: it is "CALL", the interface, the name of op
\* and then nothing but the arguments.
NamesOperation(message, op) ==
    \E interface \in { "wasi:filesystem/preopens#", "wasi:filesystem/types#",
                       "wasi:filesystem/types#descriptor." },
       arguments \in { "", " FD={self:?}", " FD={self:?} OFFSET={offset}",
                       " FD={self:?} PATH={path}", " FD={self:?} PATH={old_path}",
                       " FD1={self:?} FD2={other:?}", " SID={self:?}" } :
        message = "CALL " \o interface \o OperationName[op] \o arguments

\* C11: every call into the tracing component emits exactly one log record,
\* as its first external interaction and so before the provider is called;
\* the record names the operation called and carries arguments only, nothing
\* of the result; this is so whether the provider then succeeds or fails.
C11_TracerRecordDiscipline ==
    (component = "tracing" /\ ~Idle)
        => /\ Len(SelectSeq(events, LAMBDA e : e.kind = "log")) = 1
           /\ events[1].kind = "log"
           /\ NamesOperation(events[1].message, call.op)
           /\ DOMAIN events[1].fields \subseteq
                  {"none", "self", "other", "offset", "path", "old_path"}
           /\ Len(events) = 2
           /\ events[2].kind = "provider"

\* The record of an open_at has been emitted and the provider has then failed.
C11_Witness ==
    /\ component = "tracing"
    /\ call.op = "open_at"
    /\ events[1].kind = "log"
    /\ ~events[2].result.ok
    /\ ~result.ok

\* Provider arguments pargs are the guest's arguments args: the same fields,
\* each with the same value, a descriptor being answered by the handle it
\* wraps and an advice or timestamp by the provider's case of the same name.
SameArguments(args, pargs) ==
    /\ DOMAIN pargs = DOMAIN args
    /\ \A f \in DOMAIN args :
           CASE f \in {"new_descriptor", "other"} ->
                    pargs[f] = descriptors[args[f]].fd
             [] f = "advice" ->
                    pargs[f] = <<"types::Advice", args[f][2]>>
             [] f \in {"data_access_timestamp", "data_modification_timestamp"} ->
                    /\ pargs[f][1] = "types::NewTimestamp"
                    /\ Tail(pargs[f]) = Tail(args[f])
             [] OTHER -> pargs[f] = args[f]

\* C12: every call on a descriptor or directory stream of the tracing
\* component, mutating or not, makes exactly one provider call: of the same
\* operation, on the wrapped handle, with the guest's arguments.
C12_TracerDelegates ==
    ( /\ component = "tracing"
      /\ ~Idle
      /\ call.op \notin {"get_directories", "filesystem_error_code"} )
        => LET pc == ProviderCalls(events)
           IN  /\ Len(pc) = 1
               /\ pc[1].op = call.op
               /\ pc[1].fd = Wrapped
               /\ SameArguments(call.args, pc[1].args)

\* A write at an offset other than 0 has been delegated and has succeeded.
C12_Witness ==
    /\ component = "tracing"
    /\ call.op = "write"
    /\ call.args.offset # 0
    /\ ProviderCalls(events)[1].args = call.args
    /\ result.ok

\* C13: when the logging sink fails to store the record of a call of the
\* tracing component, the call still makes its one provider call, on the
\* wrapped handle, and returns what the provider answered; the component
\* does not abort.
C13_TracerLoggingBestEffort ==
    (component = "tracing" /\ ~Idle /\ sink = "failed")
        => LET pc == ProviderCalls(events)
           IN  /\ ~aborted
               /\ Len(pc) = 1
               /\ pc[1].op = call.op
               /\ pc[1].fd = Wrapped
               /\ Mirrors(pc[1].result, result)

\* The sink has failed on the record of a read_via_stream that the provider
\* has then served.
C13_Witness ==
    /\ component = "tracing"
    /\ call.op = "read_via_stream"
    /\ sink = "failed"
    /\ events[1].kind = "log"
    /\ ProviderCalls(events)[1].result.ok
    /\ result = ProviderCalls(events)[1].result

\* The read-side operations of a descriptor.
ReadSideOps ==
    { "read", "stat", "stat_at", "read_directory", "readlink_at", "metadata_hash",
      "metadata_hash_at", "advise", "is_same_object", "get_type" }

\* C14: each read-side operation of the readonly component makes exactly one
\* provider call, of the same operation on the wrapped handle with the
\* guest's arguments, and returns the provider's answer, value or error,
\* under the one-to-one type mapping, a returned stream being wrapped.
C14_ReadOnlyReadSidePassThrough ==
    (component = "readonly" /\ call.op \in ReadSideOps)
        => LET pc == ProviderCalls(events)
           IN  /\ Len(events) = 1
               /\ Len(pc) = 1
               /\ pc[1].op = call.op
               /\ pc[1].fd = descriptors[call.self].fd
               /\ SameArguments(call.args, pc[1].args)
               /\ Mirrors(pc[1].result, result)
               /\ (call.op = "read_directory" /\ result.ok) =>
                      streams[result.v.directory_entry_stream].wrapper =
                          "ReadOnlyDirectoryEntryStream"

\* stat_at following symbolic links has been answered by the provider with a
\* stat record, on a descriptor obtained from open_at.
C14_Witness ==
    /\ component = "readonly"
    /\ call.op = "stat_at"
    /\ call.args.path_flags = {"SYMLINK_FOLLOW"}
    /\ provFds[descriptors[call.self].fd].origin = "open_at"
    /\ result.ok
    /\ result.v.stat.type_[1] = "DescriptorType"

\* C15: when get_directories of the chroot component returns, it returns
\* exactly one pair: its name is "/" and its descriptor wraps the handle the
\* provider returned for opening, as a directory, the root path computed from
\* the configuration on the first of the provider's preopened directories; no
\* other preopened directory is the target of a provider call.
C15_ChrootPreopen ==
    (component = "chroot" /\ call.op = "get_directories" /\ ~aborted)
        => LET pc == ProviderCalls(events)
               first == pc[1].result.list[1]
           IN  /\ Len(pc) = 2
               /\ pc[1].op = "get_directories"
               /\ Len(pc[1].result.list) = Len(provPreopens)
               /\ pc[2].op = "open_at"
               /\ pc[2].fd = first.fd
               /\ provFds[first.fd] = [origin |-> "preopen", parent |-> 0, path |-> provPreopens[1]]
               /\ pc[2].args.path = prefix_path(config.value, provPreopens[1])
               /\ StartsWith(pc[2].args.path, config.value)
               /\ pc[2].args.open_flags = {"DIRECTORY"}
               /\ pc[2].result.ok
               /\ Len(result.list) = 1
               /\ result.list[1].path = <<"/">>
               /\ descriptors[result.list[1].descriptor] =
                      [wrapper |-> "FilesystemChrootDescriptor", fd |-> pc[2].result.v.fd]

\* get_directories has returned with two directories preopened by the provider.
C15_Witness ==
    /\ component = "chroot"
    /\ call.op = "get_directories"
    /\ ~aborted
    /\ Len(provPreopens) = 2
    /\ Len(result.list) = 1

\* get_directories has asked the provider to open the root and was refused.
RootNotOpened ==
    \E i \in DOMAIN events :
        /\ events[i].kind = "provider"
        /\ events[i].op = "open_at"
        /\ ~events[i].result.ok

\* C16: in the chroot component, get_directories aborts, returning no value,
\* when the configuration has no root, when the provider preopens nothing and
\* when the provider refuses to open the root; the aborting call exports no
\* descriptor, and without a configured root or without a preopened directory
\* the guest never holds one.
C16_FatalInitialization ==
    /\ [](component = "chroot" =>
            /\ (config.state # "some" \/ provPreopens = <<>>) =>
                   /\ descriptors = <<>>
                   /\ streams = <<>>
                   /\ call.op = "get_directories" => aborted
            /\ (call.op = "get_directories" /\ RootNotOpened) => aborted
            /\ (aborted /\ ~Idle) =>
                   /\ call.op = "get_directories"
                   /\ DOMAIN result = {"panic"})
    /\ [][ (component = "chroot" /\ aborted')
               => descriptors' = descriptors /\ streams' = streams ]_vars

\* The root is configured and a directory is preopened, the provider has
\* refused to open the root, and get_directories has aborted.
C16_Witness ==
    /\ component = "chroot"
    /\ config.state = "some"
    /\ provPreopens # <<>>
    /\ call.op = "get_directories"
    /\ RootNotOpened
    /\ aborted
    /\ descriptors = <<>>

\* C17: get_directories of the readonly and of the tracing component returns
\* one pair for every directory the provider preopens, in the provider's
\* order: pair i carries the provider's name of preopen i and a descriptor of
\* its own that wraps the provider's handle of preopen i.
C17_PreopensReexported ==
    (component \in {"readonly", "tracing"} /\ call.op = "get_directories")
        => LET answer == ProviderCalls(events)[1].result.list
           IN  /\ Len(ProviderCalls(events)) = 1
               /\ Len(answer) = Len(provPreopens)
               /\ Len(result.list) = Len(answer)
               /\ \A i \in DOMAIN answer :
                      /\ answer[i].path = provPreopens[i]
                      /\ result.list[i].path = provPreopens[i]
                      /\ descriptors[result.list[i].descriptor] =
                             [wrapper |-> ExportedDescriptor[component], fd |-> answer[i].fd]
                      /\ provFds[answer[i].fd].path = provPreopens[i]
               /\ \A i, j \in DOMAIN answer :
                      result.list[i].descriptor = result.list[j].descriptor => i = j

\* The readonly component has re-exported two preopened directories whose
\* names differ.
C17_Witness ==
    /\ component = "readonly"
    /\ call.op = "get_directories"
    /\ Len(result.list) = 2
    /\ result.list[1].path = P_data
    /\ result.list[2].path = P_root

\* The flags type a mapping function reads and the one it produces.
FlagsTypes ==
    [ descriptor_flags_map |-> <<"types::DescriptorFlags", "DescriptorFlags">>,
      descriptor_flags_in |-> <<"DescriptorFlags", "types::DescriptorFlags">>,
      open_flags_in |-> <<"OpenFlags", "types::OpenFlags">>,
      path_flags_in |-> <<"PathFlags", "types::PathFlags">> ]

\* C18: in each component the mapper sends each of the 37 provider error
\* codes and each of the 8 provider descriptor types to the exported case of
\* the same name, so that different codes stay different, and sends every
\* descriptor, open and path flags value to the value with the same flags
\* set, carried by the same integer.
C18_MapperRoundTrip ==
    /\ call.op = "error_code_map" =>
           /\ call.args.error_code[1] = "types::ErrorCode"
           /\ result.error_code = <<"ErrorCode", call.args.error_code[2]>>
           /\ Cardinality({ error_code_map(e) : e \in ProviderErrorCodes }) = 37
    /\ call.op = "descriptor_type_map" =>
           /\ call.args.descriptor_type[1] = "types::DescriptorType"
           /\ result.descriptor_type = <<"DescriptorType", call.args.descriptor_type[2]>>
           /\ Cardinality({ descriptor_type_map(t) : t \in ProviderDescriptorTypes }) = 8
    /\ call.op \in DOMAIN FlagsTypes =>
           LET name == CHOOSE f \in DOMAIN call.args : TRUE
           IN  /\ result[name] = call.args[name]
               /\ bits(FlagsTypes[call.op][2], result[name]) =
                      bits(FlagsTypes[call.op][1], call.args[name])

\* The readonly component has mapped the provider's last error code.
C18_Witness ==
    /\ component = "readonly"
    /\ call.op = "error_code_map"
    /\ call.args.error_code = <<"types::ErrorCode", "CrossDevice">>
    /\ result.error_code = <<"ErrorCode", "CrossDevice">>

\* C19: get_directories is the only call that can abort a component: every
\* other call, in every component and whatever its arguments, returns an
\* ordinary value (a result, a boolean or an optional error code) and leaves
\* the component running; and no flags value a guest can present makes a
\* conversion of flags panic.
C19_NoMidSessionAbort ==
    /\ call.op \notin {"none", "get_directories"} =>
           /\ ~aborted
           /\ \/ IsResult(result)
              \/ DOMAIN result = {"bool"}
              \/ "some" \in DOMAIN result
    /\ aborted => (component = "chroot" /\ (Idle \/ call.op = "get_directories"))
    /\ nCalls = 0 =>
           /\ \A f \in SUBSET DescriptorFlagBits :
                  descriptor_flags_in(f) # Panicked /\ descriptor_flags_map(f) # Panicked
           /\ \A f \in SUBSET OpenFlagBits : open_flags_in(f) # Panicked
           /\ \A f \in SUBSET PathFlagBits : path_flags_in(f) # Panicked

\* After a successful initialization of the chroot component the provider has
\* refused an open_at, and the guest has received the error as a value.
C19_Witness ==
    /\ component = "chroot"
    /\ call.op = "open_at"
    /\ call.args.open_flags = {"DIRECTORY"}
    /\ descriptors # <<>>
    /\ ~aborted
    /\ IsErr(result, "NotPermitted")

\* The operations of the recorded session that a component does not forward.
NotForwarded(op) == component = "readonly" /\ op \in ReadOnlyDenyList \cup {"write", "sync"}

\* The operations the guest called on a descriptor that wraps provider handle
\* fd and that the component forwards, in the order of the calls.
GuestOrder(fd) ==
    LET calls == SelectSeq(history, LAMBDA e :
                     /\ e.by = "guest"
                     /\ e.on \in DOMAIN descriptors
                     /\ descriptors[e.on].fd = fd
                     /\ ~NotForwarded(e.op))
    IN  [ i \in DOMAIN calls |-> calls[i].op ]

\* The operations the provider was asked for on handle fd, in order.
ProviderOrder(fd) ==
    LET calls == SelectSeq(history, LAMBDA e : e.by = "component" /\ e.on = fd)
    IN  [ i \in DOMAIN calls |-> calls[i].op ]

\* C20: for every descriptor the guest holds, the provider has been asked, on
\* the handle it wraps, for exactly the operations the guest called on it and
\* the component forwards, once each and in the guest's order; every provider
\* call on such a handle was made, and answered, within the guest call of the
\* same operation that comes right before it in the session.
C20_Ordering ==
    recording =>
        /\ \A d \in DOMAIN descriptors :
               ProviderOrder(descriptors[d].fd) = GuestOrder(descriptors[d].fd)
        /\ \A i \in DOMAIN history :
               ( /\ history[i].by = "component"
                 /\ \E d \in DOMAIN descriptors : descriptors[d].fd = history[i].on )
                   => /\ i > 1
                      /\ history[i - 1].by = "guest"
                      /\ history[i - 1].op = history[i].op
                      /\ history[i - 1].on \in DOMAIN descriptors
                      /\ descriptors[history[i - 1].on].fd = history[i].on
        /\ \A i \in DOMAIN events :
               events[i].kind = "provider" => "result" \in DOMAIN events[i]

\* The guest has called write and then read on one descriptor of the chroot
\* component, and the provider has seen them in that order.
C20_Witness ==
    /\ component = "chroot"
    /\ recording
    /\ \E d \in DOMAIN descriptors :
           /\ GuestOrder(descriptors[d].fd) = <<"write", "read">>
           /\ ProviderOrder(descriptors[d].fd) = <<"write", "read">>

\* The entry the guest gets next from exported stream s, if the provider
\* answers the read.
NextEntry(s) == option_map_entry(ProvNextEntry(streams[s].des))

\* C21: every stream wrapper has a provider stream of its own; a successful
\* read_directory adds one wrapper over one new provider stream at the start
\* of the directory and leaves every other stream where it was; a
\* read_directory_entry asks the wrapper's own provider stream, once, returns
\* that stream's next entry, advances it by at most one entry and leaves the
\* next entry of every other stream the guest holds unchanged.
C21_StreamIndependence ==
    /\ [](\A s, t \in DOMAIN streams : streams[s].des = streams[t].des => s = t)
    /\ [][ (call'.op = "read_directory" /\ result'.ok)
              => LET s == result'.v.directory_entry_stream
                     des == streams'[s].des
                 IN  /\ DOMAIN streams' = DOMAIN streams \cup {s}
                     /\ s \notin DOMAIN streams
                     /\ des \notin DOMAIN provStreams
                     /\ provStreams'[des] = [fd |-> descriptors[call'.self].fd, pos |-> 0]
                     /\ \A t \in DOMAIN streams :
                            /\ streams'[t] = streams[t]
                            /\ provStreams'[streams[t].des] = provStreams[streams[t].des] ]_vars
    /\ [][ call'.op = "read_directory_entry"
              => LET s == call'.self
                     des == streams[s].des
                     pc == ProviderCalls(events')
                 IN  /\ streams' = streams
                     /\ Len(pc) = 1
                     /\ pc[1].op = "read_directory_entry"
                     /\ pc[1].fd = des
                     /\ result'.ok => result'.v.directory_entry = NextEntry(s)
                     /\ provStreams'[des].pos \in { provStreams[des].pos, provStreams[des].pos + 1 }
                     /\ \A t \in DOMAIN streams \ {s} :
                            /\ provStreams'[streams[t].des] = provStreams[streams[t].des]
                            /\ NextEntry(t)' = NextEntry(t) ]_vars

\* Two streams are open over the same directory and the first has been read
\* once; the second, read after it, has just returned the first entry of the
\* directory.
C21_Witness ==
    /\ Len(streams) = 2
    /\ provStreams[streams[1].des].fd = provStreams[streams[2].des].fd
    /\ provStreams[streams[1].des].pos = 1
    /\ provStreams[streams[2].des].pos = 1
    /\ call.op = "read_directory_entry"
    /\ call.self = 2
    /\ result.ok
    /\ result.v.directory_entry = [some |-> TRUE, entry |-> directory_entry_map(DirEntries[1])]

\* How many times the provider resource has been released.
TimesReleased(resource, handle) ==
    Cardinality({ i \in DOMAIN released :
                    released[i] = [resource |-> resource, handle |-> handle] })

\* C22: every wrapper refers to one provider resource; a provider descriptor
\* or stream that a live wrapper refers to has not been released, one whose
\* wrappers have all been dropped has been released, and none is released
\* more than once; dropping a descriptor releases the handle it wraps when it
\* held the last reference, and nothing else: never the handle that
\* descriptor was opened from.
C22_SharedOwnership ==
    /\ [](/\ \A d \in DOMAIN descriptors :
                LET fd == descriptors[d].fd
                IN  /\ fd \in DOMAIN provFds
                    /\ TimesReleased("descriptor", fd) =
                           (IF DescriptorStrongCount(fd) = 0 THEN 1 ELSE 0)
          /\ \A s \in DOMAIN streams :
                LET des == streams[s].des
                IN  /\ des \in DOMAIN provStreams
                    /\ TimesReleased("directory-entry-stream", des) =
                           (IF StreamStrongCount(des) = 0 THEN 1 ELSE 0)
          /\ \A i, j \in DOMAIN released : released[i] = released[j] => i = j)
    /\ [][ call'.op = "drop_descriptor"
              => LET fd == descriptors[call'.self].fd
                 IN  /\ Releases(events') \in { <<>>, <<[resource |-> "descriptor", handle |-> fd]>> }
                     /\ released' = released \o Releases(events')
                     /\ provFds[fd].origin = "open_at"
                            => \A i \in DOMAIN released' \ DOMAIN released :
                                   released'[i].handle # provFds[fd].parent ]_vars

\* The guest has dropped a descriptor it got from open_at: the handle it
\* wrapped has been released and the descriptor it was opened from is live and
\* its handle open.
C22_Witness ==
    /\ call.op = "drop_descriptor"
    /\ provFds[descriptors[call.self].fd].origin = "open_at"
    /\ TimesReleased("descriptor", descriptors[call.self].fd) = 1
    /\ \E p \in LiveDescriptors :
           /\ descriptors[p].fd = provFds[descriptors[call.self].fd].parent
           /\ TimesReleased("descriptor", descriptors[p].fd) = 0

\* The open_at calls get_directories has made on the provider.
RootOpens ==
    SelectSeq(events, LAMBDA e : e.kind = "provider" /\ e.op = "open_at")

\* C23: the path that get_directories of the chroot component opens on the
\* provider's first preopened directory is the configured root without its
\* leading separator, taken relative to that directory (or, reading "joined
\* under the provider root" as a join of strings, appended to the name of that
\* directory).
C23_ConfinementRootComputation ==
    (component = "chroot" /\ call.op = "get_directories" /\ RootOpens # <<>>)
        => LET opened == RootOpens[1].args.path
               suffix == strip_prefix(config.value).p
           IN  /\ provFds[RootOpens[1].fd].path = provPreopens[1]
               /\ opened \in { suffix, PathJoin(provPreopens[1], suffix) }

\* The exported descriptors that wrap a root: a handle opened on a directory
\* the provider preopened.
RootDescriptors ==
    { d \in DOMAIN descriptors :
        /\ provFds[descriptors[d].fd].origin = "open_at"
        /\ provFds[provFds[descriptors[d].fd].parent].origin = "preopen" }

\* C24: whatever becomes of the stored value, the chroot component keeps the
\* root it resolved first: every get_directories call opens the path the first
\* one opened, and none stops short of it for want of a stored value.
C24_ConfinementRootImmutable ==
    (component = "chroot" /\ call.op = "get_directories" /\ RootDescriptors # {})
        => /\ RootOpens # <<>>
           /\ \A i \in DOMAIN RootOpens, d \in RootDescriptors :
                  RootOpens[i].args.path = provFds[descriptors[d].fd].path

\* The guest calls of the recorded session, as positions of `history`.
GuestCalls == { i \in DOMAIN history : history[i].by = "guest" }

\* The component forwarded guest call i: a provider call follows it.
WasForwarded(i) == i < Len(history) /\ history[i + 1].by = "component"

\* What the decision on guest call i may depend on: the operation and, for
\* open_at, the open flags and the descriptor flags.
DecisionInput(i) ==
    IF history[i].op = "open_at"
    THEN << "open_at", history[i].args.open_flags, history[i].args.flags >>
    ELSE << history[i].op >>

\* C25: in a session of the readonly component, any two calls of the same
\* operation (for open_at: with the same open flags and descriptor flags) are
\* both forwarded or both rejected, whatever the descriptor, the path, the
\* path flags and the calls made before them; and a rejected call leaves the
\* component's tables as they were.
C25_DecisionsHistoryFree ==
    /\ [](recording =>
            \A i, j \in GuestCalls :
                DecisionInput(i) = DecisionInput(j) => (WasForwarded(i) <=> WasForwarded(j)))
    /\ [][ (component = "readonly" /\ call'.op # "none" /\ ProviderCalls(events') = <<>>)
              => UNCHANGED tables ]_vars

\* Two open_at calls with the same open flags and descriptor flags, the
\* second on another descriptor, with another path and other path flags, and
\* with the first call behind it: both were forwarded.
C25_Witness ==
    /\ recording
    /\ \E i, j \in GuestCalls :
           /\ i < j
           /\ history[i].op = "open_at" /\ history[j].op = "open_at"
           /\ DecisionInput(i) = DecisionInput(j)
           /\ history[i].on # history[j].on
           /\ history[i].args.path # history[j].args.path
           /\ history[i].args.path_flags # history[j].args.path_flags
           /\ WasForwarded(i) /\ WasForwarded(j)

C27_ReadOnlyGetFlagsFrame ==
    (component = "readonly" /\ call.op = "get_flags")
        => LET pc == ProviderCalls(events)
               answer == pc[1].result
           IN  /\ Len(pc) = 1
               /\ pc[1].op = "get_flags"
               /\ pc[1].fd = descriptors[call.self].fd
               /\ answer.ok =>
                      /\ result.ok
                      /\ result.v.flags = answer.v.flags \
                             {"WRITE", "FILE_INTEGRITY_SYNC", "DATA_INTEGRITY_SYNC",
                              "MUTATE_DIRECTORY"}
                      /\ result.v.flags \cap {"READ", "REQUESTED_WRITE_SYNC"} =
                             answer.v.flags \cap {"READ", "REQUESTED_WRITE_SYNC"}
               /\ ~answer.ok =>
                      /\ ~result.ok
                      /\ result.v.code = <<"ErrorCode", answer.v.code[2]>>

\* The provider has reported read, write and requested-write-sync, and the
\* guest has received read and requested-write-sync.
C27_Witness ==
    /\ component = "readonly"
    /\ call.op = "get_flags"
    /\ ProviderCalls(events)[1].result = Ok([flags |-> {"READ", "WRITE", "REQUESTED_WRITE_SYNC"}])
    /\ result = Ok([flags |-> {"READ", "REQUESTED_WRITE_SYNC"}])

\* C28: whatever path it is given and whatever prefix is configured, the path
\* prefix_path returns begins with the configured prefix.
C28_PrefixPathUnderPrefix ==
    (call.op = "prefix_path" /\ ~aborted)
        => StartsWith(result.path, config.value)

\* C29: link_at and rename_at of the chroot and of the tracing component call
\* the provider on the receiver's handle with the handle wrapped by the
\* new_descriptor argument as the target; is_same_object of each component
\* calls the provider's is_same_object on the receiver's handle with the
\* handle wrapped by the other descriptor, and returns its answer.
C29_SecondDescriptorHandle ==
    /\ (component \in {"chroot", "tracing"} /\ call.op \in {"link_at", "rename_at"})
           => LET pc == ProviderCalls(events)
              IN  /\ Len(pc) = 1
                  /\ pc[1].op = call.op
                  /\ pc[1].fd = descriptors[call.self].fd
                  /\ pc[1].args.new_descriptor = descriptors[call.args.new_descriptor].fd
                  /\ pc[1].args.new_path = call.args.new_path
    /\ call.op = "is_same_object"
           => LET pc == ProviderCalls(events)
              IN  /\ Len(pc) = 1
                  /\ pc[1].op = "is_same_object"
                  /\ pc[1].fd = descriptors[call.self].fd
                  /\ pc[1].args.other = descriptors[call.args.other].fd
                  /\ result = pc[1].result

\* rename_at on the exported root of the chroot component, into a directory
\* the guest opened beneath it: the provider has been given the two handles.
C29_Witness ==
    /\ component = "chroot"
    /\ call.op = "rename_at"
    /\ call.args.new_descriptor # call.self
    /\ provFds[descriptors[call.args.new_descriptor].fd].parent = descriptors[call.self].fd
    /\ ProviderCalls(events)[1].args.new_descriptor # ProviderCalls(events)[1].fd

\* C30: get_directories of the chroot component asks the provider for nothing
\* but its preopened directories and one open_at, with path flags
\* {symlink-follow}, open flags {directory} and descriptor flags {read}; the
\* root it exports wraps the handle that open_at returned.
C30_RootOpenMode ==
    (component = "chroot" /\ call.op = "get_directories")
        => LET pc == ProviderCalls(events)
           IN  /\ \A i \in DOMAIN pc : pc[i].op \in {"get_directories", "open_at"}
               /\ Len(RootOpens) <= 1
               /\ \A i \in DOMAIN RootOpens :
                      /\ RootOpens[i].args.path_flags = {"SYMLINK_FOLLOW"}
                      /\ RootOpens[i].args.open_flags = {"DIRECTORY"}
                      /\ RootOpens[i].args.flags = {"READ"}
                      /\ {"CREATE", "WRITE", "MUTATE_DIRECTORY"} \cap
                             (RootOpens[i].args.open_flags \cup RootOpens[i].args.flags) = {}
               /\ ~aborted =>
                      /\ Len(RootOpens) = 1
                      /\ descriptors[result.list[1].descriptor].fd = RootOpens[1].result.v.fd

\* The root has been opened under "/sandbox" and exported.
C30_Witness ==
    /\ component = "chroot"
    /\ call.op = "get_directories"
    /\ config = ConfigSome(P_sandbox)
    /\ ~aborted
    /\ RootOpens[1].result.ok
    /\ RootOpens[1].args.flags = {"READ"}
    /\ descriptors[result.list[1].descriptor].fd = RootOpens[1].result.v.fd

====
